---- MODULE Spec2Model ----
(***************************************************************************)
(* Verification model of the Qazna ledger service.                         *)
(*                                                                         *)
(*  - the in-memory ledger backend (internal/ledger/service.go)            *)
(*  - the PostgreSQL ledger backend (the pg package, Store.Transfer)       *)
(*  - the HTTP authentication pipeline (internal/httpapi/authn.go)         *)
(*  - refresh-token rotation (internal/auth/service.go)                    *)
(*                                                                         *)
(* Each subsystem has its own specification; the variables of the other    *)
(* subsystems stay unchanged in it.                                        *)
(***************************************************************************)
EXTENDS Integers, Sequences, FiniteSets, TLC

VARIABLES
    accts,      \* InMemory.accts : id -> balances map (currency -> int64)
    seq,        \* InMemory.seq
    txs,        \* InMemory.txs
    idem,       \* InMemory.idem : idemKey -> Transaction
    seedTotal,  \* history: per currency, the sum of the seeds CreateAccount accepted
    last,       \* history: what the last call on the in-memory backend returned
    pgLog,      \* the database: what each committed transaction wrote, in commit order
    seqgen,     \* the generator behind transactions.sequence (bigserial)
    conn,       \* per connection: the Store.Transfer call running on it
    started,    \* history: how many transfers got as far as their first statement
    refreshTokens,  \* the refresh-token store: token id -> record
    now,            \* the clock of the auth service
    rt,             \* per process: the RefreshTokenPair call it is running
    rtRes,          \* history: what the last token call to return returned
    rotated,        \* history: the token ids a RefreshTokenPair call has used with success
    rolePerms,      \* the RBAC store: role id -> the permission keys of the role
    resp,           \* the response to the request the API served last
    authCodes,      \* table oauth_auth_codes: code -> row
    ex,             \* per process: the ExchangeAuthCode call it is running
    exRes,          \* history: the last answer of /v1/auth/oauth/token and its request
    authKeys,       \* table auth_keys, committed rows: id -> row
    keyTx,          \* per process: its cached active key and its rotation under way
    verified,       \* history: the access token verifyAccessToken checked last and its verdict
    pgLast,         \* history: what the last call of the caller of both backends returned on PostgreSQL
    buckets,        \* RateLimit: client IP -> its bucket (the limiter's tokens and clock, last seen)
    lastSweep,      \* RateLimit: when the buckets were swept last
    rlNow,          \* time.Now() of the rate limiter, in refill periods
    rlBurst,        \* the burst RateLimit was built with
    admits,         \* history: the times at which requests of the first client were passed on
    rlResp,         \* history: the request RateLimit served last and what was answered
    user_roles,     \* the table user_roles: rows of user_id, role_id, organization_id
    role_permissions, \* the table role_permissions: pairs of role_id and permission key
    rbacRes,        \* history: the RBAC store call made last and its error
    audited,        \* the audit entries written while the last request was served
    auditFailures,  \* the audit_log_failed lines logged while the last request was served
    responseRid,    \* X-Request-Id on the response to the last request
    disk,           \* the migration files under migrationsDir
    dbSchema,       \* the database: the statements of migrations in effect
    schema_migrations, \* the table schema_migrations: names in the order of applied_at
    migRes,         \* history: the call on the migration manager made last and what it did
    mainPc,         \* where func main of cmd/api is
    srvActive,      \* HTTP requests being served
    grpcActive,     \* gRPC calls being served
    listening,      \* the servers that accept connections
    ctxDone,        \* the 10-second shutdown context has expired
    closed,         \* what main has stopped or closed, in order
    accepted,       \* history: the requests accepted so far
    cursor,         \* the paging client: the afterSeq of its next ListTransactions call
    received,       \* history: the sequences of the transactions the paging client was given, in order
    userStatus,     \* the table users: user id -> status
    assignments,    \* the table user_roles of the API's RBAC store: user id -> role ids
    issued,         \* history: the access tokens issued so far
    xfer,           \* per process: the API.transfer call it is serving
    wallClock,      \* the wall clock: the value time.Now() returned last
    createdAt,      \* CreatedAt of the transactions of the in-memory ledger, by ID
    auditLog,       \* history: the audit events of the transfer requests served, in order
    passed,         \* history: the layers of API.Handler the last request entered, in order
    subs,           \* Stream.subs: the IDs of the registered subscribers
    nextID,         \* Stream.next: the ID of the next subscriber
    mu,             \* Stream.mu: the writer that holds it and the readers that hold it
    chans,          \* the channels Subscribe has made, by subscriber ID
    subCtx,         \* per subscriber ID: how far its context and its closing goroutine are
    pub,            \* per process: the Publish call it is in
    published,      \* history: the number of Publish calls so far
    panicked        \* history: a send on a closed channel has happened

memVars == <<accts, seq, txs, idem>>
pgVars == <<pgLog, seqgen, conn, started>>
authVars == <<refreshTokens, now, rt, rtRes, rotated>>
httpVars == <<rolePerms, resp>>
oauthVars == <<authCodes, ex, exRes>>
keyVars == <<authKeys, keyTx>>
verifyVars == <<verified>>
bothVars == <<pgLast>>
rlVars == <<buckets, lastSweep, rlNow, rlBurst, admits, rlResp>>
rbacVars == <<user_roles, role_permissions, rbacRes>>
auditVars == <<audited, auditFailures, responseRid>>
migrateVars == <<disk, dbSchema, schema_migrations, migRes>>
mainVars == <<mainPc, srvActive, grpcActive, listening, ctxDone, closed, accepted>>
pageVars == <<cursor, received>>
userVars == <<userStatus>>
revokeVars == <<assignments, issued>>
xferVars == <<xfer, wallClock, createdAt, auditLog>>
traceVars == <<passed>>
streamVars == <<subs, nextID, mu, chans, subCtx, pub, published, panicked>>

----------------------------------------------------------------------------
(* Bounds of the model *)

Width == 3              \* bits of the model's signed integers (int64 in the code)
MaxMemOps == 3          \* accounts created plus transactions committed in memory in one run
MaxOps == 4             \* accounts created plus transfers begun on PostgreSQL in one run
MaxTokens == 3          \* refresh tokens minted in one run
MaxCodes == 2           \* authorization codes issued in one run
MaxKeys == 3            \* signing keys generated in one run
MaxTime == 3            \* the largest exp and iat of the access tokens presented
MaxBurst == 3           \* the largest burst of the rate limiter
MaxRlTime == 2          \* how long the rate limiter runs, in refill periods
StatementsPerFile == 2  \* the statements of a migration file
MaxRequests == 3        \* requests the API process accepts in its life
MaxClock == 6           \* readings of the wall clock in one run
MaxSubs == 2            \* subscribers of the event stream in one run
MaxEvents == 2          \* Publish calls in one run
ChanCap == 1            \* capacity of a subscriber's channel (16 in stream.go), scaled

(* int64 arithmetic: Go wraps silently *)
MinInt64 == -(2 ^ (Width - 1))
MaxInt64 == (2 ^ (Width - 1)) - 1
Wrap(x) == ((x - MinInt64) % (2 ^ Width)) + MinInt64

(* Inputs *)
Currencies == {"", "QZN", "USD"}
RealCurrencies == Currencies \ {""}
IdemKeys == {"", "k1"}

(* CreateAccount inputs: <<currency, amount>> *)
SeedInputs ==
    ({"QZN"} \X {0, 1, MaxInt64}) \cup {<<"USD", 1>>, <<"", 1>>, <<"QZN", -1>>}

(* the account ids the calls name: an id is unknown until that many accounts
   have been created *)
AccountIDs == {1, 2, 3}

(* Transfer inputs <<from, to, currency, amount, idemKey>>: every pair of
   account ids, and some malformed calls *)
TransferInputs ==
    (AccountIDs \X AccountIDs \X {"QZN"} \X {1, MaxInt64} \X IdemKeys)
    \cup ({1, 2} \X {1, 2} \X {"USD"} \X {1} \X {""})
    \cup {<<1, 1, "QZN", 0, "k1">>, <<1, 1, "QZN", -1, "">>, <<1, 1, "", 1, "k1">>}

(* Inputs of the calls on the PostgreSQL backend *)
PgSeedInputs == {<<"QZN", 1>>, <<"QZN", MaxInt64>>, <<"", 1>>, <<"QZN", -1>>}

PgTransferInputs(n) ==
    ((1 .. n) \X (1 .. n) \X {"QZN"} \X {1} \X IdemKeys)
    \cup {<<1, n + 1, "QZN", 1, "">>, <<1, 1, "QZN", 2, "k1">>,
          <<1, 1, "QZN", 0, "k1">>, <<1, 1, "", 1, "">>}

NoTx == [ID |-> 0, FromAccountID |-> 0, ToAccountID |-> 0, Currency |-> "",
         Amount |-> 0, IdempotencyKey |-> "", Sequence |-> 0]

(* Errors of the ledger package *)
ErrNotFound == "not found"
ErrInsufficientFunds == "insufficient funds"
ErrInvalidAmount == "invalid amount (must be > 0)"
ErrInvalidCurrency == "invalid currency"

----------------------------------------------------------------------------
(* Helpers *)

(* Go map read: a missing key reads as the zero value *)
Bal(m, c) == IF c \in DOMAIN m THEN m[c] ELSE 0

(* Go map write m[c] = v *)
SetBal(m, c, v) == [k \in (DOMAIN m) \cup {c} |-> IF k = c THEN v ELSE m[k]]

IsPositive(amount) == amount > 0

RECURSIVE SumOver(_, _, _)
SumOver(S, f(_), acc) ==
    IF S = {} THEN acc
    ELSE LET x == CHOOSE y \in S : TRUE
         IN SumOver(S \ {x}, f, acc + f(x))

Result(op, err, tx, id) == [op |-> op, err |-> err, tx |-> tx, id |-> id]

----------------------------------------------------------------------------
(* In-memory backend *)

(* What a call on the in-memory backend leaves alone *)
MemFrame == UNCHANGED <<pgVars, authVars, httpVars, oauthVars, keyVars, verifyVars, bothVars, rlVars, rbacVars, auditVars, migrateVars, mainVars, pageVars, userVars, revokeVars, xferVars, traceVars, streamVars>>

(* InMemory.CreateAccount *)
CreateAccount(currency, amount) ==
    /\ IF currency = ""
       THEN /\ last' = Result("CreateAccount", ErrInvalidCurrency, NoTx, 0)
            /\ UNCHANGED <<memVars, seedTotal>>
       ELSE IF amount < 0
       THEN /\ last' = Result("CreateAccount", ErrInvalidAmount, NoTx, 0)
            /\ UNCHANGED <<memVars, seedTotal>>
       ELSE LET id == Cardinality(DOMAIN accts) + 1
            IN /\ Cardinality(DOMAIN accts) + Len(txs) < MaxMemOps
               /\ accts' = [a \in (DOMAIN accts) \cup {id} |->
                              IF a = id THEN [c \in {currency} |-> amount] ELSE accts[a]]
               /\ seedTotal' = [seedTotal EXCEPT ![currency] = @ + amount]
               /\ last' = Result("CreateAccount", "", NoTx, id)
               /\ UNCHANGED <<seq, txs, idem>>

(* The mutation of both balances, lines 116-117: the debit is applied first,
   the credit reads the map after the debit (the two may be the same account). *)
ApplyTransferStale(a, fromID, toID, currency, amount) ==
    [a EXCEPT ![fromID] = SetBal(a[fromID], currency, Wrap(Bal(a[fromID], currency) - amount)),
              ![toID] = SetBal(a[toID], currency, Wrap(Bal(a[toID], currency) + amount))]
ApplyTransfer(a, fromID, toID, currency, amount) ==
    LET debited == [a EXCEPT ![fromID] =
                      SetBal(a[fromID], currency, Wrap(Bal(a[fromID], currency) - amount))]
    IN [debited EXCEPT ![toID] =
          SetBal(debited[toID], currency, Wrap(Bal(debited[toID], currency) + amount))]

(* if tx, ok := s.idem[idemKey]; ok, under idemKey != "" *)
IdemLookupNever(idemKey) == FALSE
IdemLookup(idemKey) == idemKey # "" /\ idemKey \in DOMAIN idem

(* from.Balances[amt.Currency] < amt.Amount *)
InsufficientNever(balance, amount) == FALSE
Insufficient(balance, amount) == balance < amount

(* InMemory.Transfer: the whole body runs under s.mu *)
Transfer(fromID, toID, currency, amount, idemKey) ==
    /\ IF ~IsPositive(amount)
       THEN /\ last' = Result("Transfer", ErrInvalidAmount, NoTx, 0)
            /\ UNCHANGED <<memVars, seedTotal>>
       ELSE IF currency = ""
       THEN /\ last' = Result("Transfer", ErrInvalidCurrency, NoTx, 0)
            /\ UNCHANGED <<memVars, seedTotal>>
       ELSE IF IdemLookup(idemKey)
       THEN /\ last' = Result("Transfer", "", idem[idemKey], 0)
            /\ UNCHANGED <<memVars, seedTotal>>
       ELSE IF fromID \notin DOMAIN accts \/ toID \notin DOMAIN accts
       THEN /\ last' = Result("Transfer", ErrNotFound, NoTx, 0)
            /\ UNCHANGED <<memVars, seedTotal>>
       ELSE IF Insufficient(Bal(accts[fromID], currency), amount)
       THEN /\ last' = Result("Transfer", ErrInsufficientFunds, NoTx, 0)
            /\ UNCHANGED <<memVars, seedTotal>>
       ELSE LET tx == [ID |-> Len(txs) + 1, FromAccountID |-> fromID,
                       ToAccountID |-> toID, Currency |-> currency,
                       Amount |-> amount, IdempotencyKey |-> idemKey,
                       Sequence |-> seq + 1]
            IN /\ Cardinality(DOMAIN accts) + Len(txs) < MaxMemOps
               /\ accts' = ApplyTransfer(accts, fromID, toID, currency, amount)
               /\ seq' = seq + 1
               /\ txs' = Append(txs, tx)
               /\ idem' = IF idemKey # ""
                          THEN [k \in (DOMAIN idem) \cup {idemKey} |->
                                  IF k = idemKey THEN tx ELSE idem[k]]
                          ELSE idem
               /\ last' = Result("Transfer", "", tx, 0)
               /\ UNCHANGED seedTotal

(* A caller of the package calls CreateAccount *)
CallCreateAccount(currency, amount) == CreateAccount(currency, amount) /\ MemFrame

(* A caller of the package calls Transfer *)
CallTransfer(fromID, toID, currency, amount, idemKey) ==
    Transfer(fromID, toID, currency, amount, idemKey) /\ MemFrame

----------------------------------------------------------------------------
(* PostgreSQL backend (package pg).  The tables are views of pgLog: a row is
   what the commits so far have made of it, and a transaction that took its
   snapshot after n commits sees the first n entries. *)

Conns == 1 .. 2

ErrCanceled == "context canceled"
ErrSerialization == "could not serialize access"    \* SQLSTATE 40001
ErrUniqueViolation == "unique violation"            \* SQLSTATE 23505
ErrOutOfRange == "bigint out of range"              \* SQLSTATE 22003

IdleConn == [pc |-> "idle", from |-> 0, to |-> 0, currency |-> "", amount |-> 0,
             key |-> "", snap |-> 0, seq |-> 0, writes |-> << >>]

(* What a committed transaction added to the database: the writes to balances
   rows of one currency, each <<account id, delta>>, and for a transfer its
   transactions row *)
AccountEntry(id, currency, amount) ==
    [kind |-> "account", id |-> id, currency |-> currency,
     writes |-> << <<id, amount>> >>, tx |-> NoTx]

TransferEntry(k, tx) ==
    [kind |-> "transfer", id |-> 0, currency |-> k.currency, writes |-> k.writes, tx |-> tx]

(* table accounts as of the first n commits *)
PgAccounts(n) == {pgLog[i].id : i \in {j \in 1 .. n : pgLog[j].kind = "account"}}

(* table transactions as of the first n commits *)
PgTransactions(n) == {pgLog[i].tx : i \in {j \in 1 .. n : pgLog[j].kind = "transfer"}}

(* the sum of what the writes w did to the row of account id *)
RECURSIVE WritesTo(_, _)
WritesTo(w, id) ==
    IF w = << >> THEN 0
    ELSE (IF Head(w)[1] = id THEN Head(w)[2] ELSE 0) + WritesTo(Tail(w), id)

(* commit i wrote the balances row (id, currency) *)
Wrote(i, id, currency) ==
    /\ pgLog[i].currency = currency
    /\ \E j \in 1 .. Len(pgLog[i].writes) : pgLog[i].writes[j][1] = id

(* table balances as of the first n commits: is there a row, and its amount *)
BalanceRowExists(n, id, currency) == \E i \in 1 .. n : Wrote(i, id, currency)

RECURSIVE PgBalance(_, _, _)
PgBalance(n, id, currency) ==
    IF n = 0 THEN 0
    ELSE PgBalance(n - 1, id, currency)
         + (IF pgLog[n].currency = currency THEN WritesTo(pgLog[n].writes, id) ELSE 0)

(* sorted(a, b), the order in which Transfer locks the two account rows *)
sortedAsGiven(a, b) == <<a, b>>
sorted(a, b) == IF a <= b THEN <<a, b>> ELSE <<b, a>>

(* the account rows connection c holds FOR UPDATE *)
LockedBy(c) ==
    LET k == conn[c]
    IN IF k.pc \in {"idle", "lock1"} THEN {}
       ELSE IF k.pc = "lock2" THEN {sorted(k.from, k.to)[1]}
       ELSE {k.from, k.to}

InFlight == {c \in Conns : conn[c].pc # "idle"}

(* What a call on the PostgreSQL backend leaves alone *)
PgFrame == UNCHANGED <<memVars, seedTotal, last, authVars, httpVars, oauthVars, keyVars, verifyVars, bothVars, rlVars, rbacVars, auditVars, migrateVars, mainVars, pageVars, userVars, revokeVars, xferVars, traceVars, streamVars>>

(* the deferred tx.Rollback: nothing the transaction wrote reaches the tables *)
RollbackKeepsWrites(log, k) ==
    IF k.writes = << >> THEN log ELSE Append(log, TransferEntry(k, NoTx))
Rollback(log, k) == log

(* tx.Commit: the writes and the transactions row reach the tables together *)
Commit(log, k, tx) == Append(log, TransferEntry(k, tx))

(* Transfer returns (err, tx) on connection c, which goes back to the pool *)
PgReturn(c, err, tx) == conn' = [conn EXCEPT ![c] = IdleConn]

(* Store.CreateAccount: one transaction that inserts the account row and its
   balance row; nothing of it is visible before its commit *)
PgCreateAccount(currency, amount) ==
    /\ PgFrame
    /\ IF currency = ""
       THEN UNCHANGED pgVars         \* ErrInvalidCurrency
       ELSE IF amount < 0
       THEN UNCHANGED pgVars         \* ErrInvalidAmount
       ELSE /\ Cardinality(PgAccounts(Len(pgLog))) + started < MaxOps
            /\ pgLog' = Append(pgLog, AccountEntry(Cardinality(PgAccounts(Len(pgLog))) + 1,
                                                   currency, amount))
            /\ UNCHANGED <<seqgen, conn, started>>

(* Store.Transfer up to its first statement: validation, BeginTx and the
   idempotency lookup, which takes the transaction's snapshot.  The pool hands
   the call a free connection; the free connections are interchangeable, and
   the call gets the first of them. *)
PgTransferBegin(c, fromID, toID, currency, amount, idemKey) ==
    /\ PgFrame
    /\ conn[c].pc = "idle"
    /\ \A d \in 1 .. (c - 1) : conn[d].pc # "idle"
    /\ LET k == [pc |-> "lock1", from |-> fromID, to |-> toID, currency |-> currency,
                 amount |-> amount, key |-> idemKey, snap |-> Len(pgLog), seq |-> 0,
                 writes |-> << >>]
           found == {t \in PgTransactions(k.snap) : t.IdempotencyKey = idemKey}
       IN IF ~IsPositive(amount)
          THEN PgReturn(c, ErrInvalidAmount, NoTx) /\ UNCHANGED <<pgLog, seqgen, started>>
          ELSE IF currency = ""
          THEN PgReturn(c, ErrInvalidCurrency, NoTx) /\ UNCHANGED <<pgLog, seqgen, started>>
          ELSE IF idemKey # "" /\ found # {}
          THEN PgReturn(c, "", CHOOSE t \in found : TRUE)
               /\ UNCHANGED <<pgLog, seqgen, started>>
          ELSE /\ Cardinality(PgAccounts(Len(pgLog))) + started < MaxOps
               /\ started' = started + 1
               /\ conn' = [conn EXCEPT ![c] = k]
               /\ UNCHANGED <<pgLog, seqgen>>

(* select 1 from accounts where id=$1 for update, for the two ids in sorted order *)
PgLockAccount(c) ==
    /\ PgFrame
    /\ conn[c].pc \in {"lock1", "lock2"}
    /\ LET k == conn[c]
           acc == sorted(k.from, k.to)[IF k.pc = "lock1" THEN 1 ELSE 2]
       IN IF acc \notin PgAccounts(k.snap)
          THEN /\ PgReturn(c, ErrNotFound, NoTx)
               /\ pgLog' = Rollback(pgLog, k)
               /\ UNCHANGED <<seqgen, started>>
          ELSE /\ \A d \in Conns \ {c} : acc \notin LockedBy(d)
               /\ conn' = [conn EXCEPT ![c].pc = IF k.pc = "lock1" THEN "lock2" ELSE "ensure"]
               /\ UNCHANGED <<pgLog, seqgen, started>>

(* the two insert ... on conflict do nothing: a missing row is inserted with
   amount 0; a row that a commit after the snapshot wrote is a conflict the
   snapshot cannot see, which fails the statement *)
PgEnsureBalanceRows(c) ==
    /\ PgFrame
    /\ conn[c].pc = "ensure"
    /\ LET k == conn[c]
           missing(id) == ~BalanceRowExists(k.snap, id, k.currency)
           w1 == IF missing(k.from) THEN << <<k.from, 0>> >> ELSE << >>
           w2 == IF missing(k.to) /\ k.to # k.from THEN << <<k.to, 0>> >> ELSE << >>
       IN IF \E id \in {k.from, k.to} :
               \E i \in (k.snap + 1) .. Len(pgLog) : Wrote(i, id, k.currency)
          THEN /\ PgReturn(c, ErrSerialization, NoTx)
               /\ pgLog' = Rollback(pgLog, k)
               /\ UNCHANGED <<seqgen, started>>
          ELSE /\ conn' = [conn EXCEPT ![c].pc = "check", ![c].writes = w1 \o w2]
               /\ UNCHANGED <<pgLog, seqgen, started>>

(* select amount ... for update, and the funds check *)
PgCheckFunds(c) ==
    /\ PgFrame
    /\ conn[c].pc = "check"
    /\ LET k == conn[c]
           fromBal == PgBalance(k.snap, k.from, k.currency) + WritesTo(k.writes, k.from)
       IN IF fromBal < k.amount
          THEN /\ PgReturn(c, ErrInsufficientFunds, NoTx)
               /\ pgLog' = Rollback(pgLog, k)
               /\ UNCHANGED <<seqgen, started>>
          ELSE /\ conn' = [conn EXCEPT ![c].pc = "debit"]
               /\ UNCHANGED <<pgLog, seqgen, started>>

(* update balances set amount = amount - $3: written inside the transaction *)
PgDebit(c) ==
    /\ PgFrame
    /\ conn[c].pc = "debit"
    /\ conn' = [conn EXCEPT ![c].pc = "credit",
                            ![c].writes = Append(@, <<conn[c].from, -conn[c].amount>>)]
    /\ UNCHANGED <<pgLog, seqgen, started>>

(* update balances set amount = amount + $3: bigint arithmetic raises on overflow *)
PgCredit(c) ==
    /\ PgFrame
    /\ conn[c].pc = "credit"
    /\ LET k == conn[c]
           toBal == PgBalance(k.snap, k.to, k.currency) + WritesTo(k.writes, k.to)
       IN IF toBal + k.amount > MaxInt64
          THEN /\ PgReturn(c, ErrOutOfRange, NoTx)
               /\ pgLog' = Rollback(pgLog, k)
               /\ UNCHANGED <<seqgen, started>>
          ELSE /\ conn' = [conn EXCEPT ![c].pc = "insert",
                                       ![c].writes = Append(@, <<k.to, k.amount>>)]
               /\ UNCHANGED <<pgLog, seqgen, started>>

(* insert into transactions ... returning sequence: nextval is not undone by a
   rollback; the unique index on idempotency_key waits for an uncommitted
   duplicate and rejects a committed one *)
PgInsertTransaction(c) ==
    /\ PgFrame
    /\ conn[c].pc = "insert"
    /\ LET k == conn[c]
       IN /\ seqgen' = seqgen + 1
          /\ UNCHANGED started
          /\ IF k.key # "" /\ \E t \in PgTransactions(Len(pgLog)) : t.IdempotencyKey = k.key
             THEN /\ PgReturn(c, ErrUniqueViolation, NoTx)
                  /\ pgLog' = Rollback(pgLog, k)
             ELSE /\ \A d \in Conns \ {c} :
                        ~(conn[d].pc = "commit" /\ k.key # "" /\ conn[d].key = k.key)
                  /\ conn' = [conn EXCEPT ![c].pc = "commit", ![c].seq = seqgen + 1]
                  /\ UNCHANGED pgLog

(* tx.Commit and the return of the record *)
PgCommit(c) ==
    /\ PgFrame
    /\ conn[c].pc = "commit"
    /\ LET k == conn[c]
           tx == [ID |-> k.seq, FromAccountID |-> k.from, ToAccountID |-> k.to,
                  Currency |-> k.currency, Amount |-> k.amount,
                  IdempotencyKey |-> k.key, Sequence |-> k.seq]
       IN /\ pgLog' = Commit(pgLog, k, tx)
          /\ PgReturn(c, "", tx)
          /\ UNCHANGED <<seqgen, started>>

(* The context is cancelled while the transfer is under way: the statement it
   is at fails, Transfer returns and the deferred Rollback runs.  The balance
   read reports every failure as ErrNotFound. *)
PgCancel(c) ==
    /\ PgFrame
    /\ conn[c].pc # "idle"
    /\ PgReturn(c, IF conn[c].pc = "check" THEN ErrNotFound ELSE ErrCanceled, NoTx)
    /\ pgLog' = Rollback(pgLog, conn[c])
    /\ UNCHANGED <<seqgen, started>>

----------------------------------------------------------------------------
(* The two backends behind one caller (ledger.Service): every call is made on
   the in-memory backend and on the PostgreSQL backend, one call at a time.
   With no other transaction under way a call on PostgreSQL runs from its
   first statement to its commit or rollback on the tables as they are.  Both
   backends allocate the ids 1, 2, ... in the order of the calls, so results
   equal up to the allocated ids are equal results here. *)

(* the default limit (100) and the largest limit (1000) of ListTransactions,
   scaled to the transactions of a run *)
LimitDefault == 1
LimitMax == 2

(* if limit <= 0 || limit > 1000 { limit = 100 } *)
effectiveLimitAsGiven(limit) == limit
effectiveLimit(limit) == IF limit <= 0 \/ limit > LimitMax THEN LimitDefault ELSE limit

(* the result of a read *)
ReadResult(op, err, value) == [op |-> op, err |-> err, value |-> value]

(* InMemory.GetAccount: a copy of the balances map *)
GetAccount(id) ==
    IF id \notin DOMAIN accts THEN ReadResult("GetAccount", ErrNotFound, << >>)
    ELSE ReadResult("GetAccount", "", accts[id])

(* InMemory.GetBalance *)
GetBalance(id, currency) ==
    IF id \notin DOMAIN accts THEN ReadResult("GetBalance", ErrNotFound, 0)
    ELSE ReadResult("GetBalance", "", Bal(accts[id], currency))

(* the loop of InMemory.ListTransactions over s.txs, from index i *)
RECURSIVE ListLoop(_, _, _, _, _)
ListLoop(i, res, lastSeq, limit, afterSeq) ==
    IF i > Len(txs) THEN <<res, lastSeq>>
    ELSE IF txs[i].Sequence <= afterSeq
    THEN ListLoop(i + 1, res, lastSeq, limit, afterSeq)
    ELSE IF Len(res) + 1 >= limit THEN <<Append(res, txs[i]), txs[i].Sequence>>
    ELSE ListLoop(i + 1, Append(res, txs[i]), txs[i].Sequence, limit, afterSeq)

(* InMemory.ListTransactions: <<items, nextSeq>> *)
ListTransactions(limit, afterSeq) ==
    ReadResult("ListTransactions", "",
               ListLoop(1, << >>, 0, effectiveLimit(limit), afterSeq))

(* Store.GetAccount: the account row, then its balances rows *)
StoreGetAccount(id) ==
    LET n == Len(pgLog)
    IN IF id \notin PgAccounts(n) THEN ReadResult("GetAccount", ErrNotFound, << >>)
       ELSE ReadResult("GetAccount", "",
                       [c \in {d \in RealCurrencies : BalanceRowExists(n, id, d)} |->
                           PgBalance(n, id, c)])

(* Store.GetBalance: coalesce(b.amount, 0) of the left join *)
StoreGetBalance(id, currency) ==
    LET n == Len(pgLog)
    IN IF id \notin PgAccounts(n) THEN ReadResult("GetBalance", ErrNotFound, 0)
       ELSE ReadResult("GetBalance", "", PgBalance(n, id, currency))

(* order by sequence asc *)
RECURSIVE OrderBySequence(_)
OrderBySequence(rows) ==
    IF rows = {} THEN << >>
    ELSE LET t == CHOOSE x \in rows : \A y \in rows : x.Sequence <= y.Sequence
         IN <<t>> \o OrderBySequence(rows \ {t})

(* Store.ListTransactions: where sequence > $1 order by sequence asc limit $2;
   last is the sequence of the last row scanned *)
StoreListTransactions(limit, afterSeq) ==
    LET rows == OrderBySequence({t \in PgTransactions(Len(pgLog)) : t.Sequence > afterSeq})
        lim == effectiveLimit(limit)
        res == SubSeq(rows, 1, IF Len(rows) < lim THEN Len(rows) ELSE lim)
    IN ReadResult("ListTransactions", "",
                  <<res, IF res = << >> THEN 0 ELSE res[Len(res)].Sequence>>)

(* A client pages through the transactions of the PostgreSQL backend while
   transfers run: each call passes the nextSeq of the call before it as
   afterSeq, starting from 0 (a page without items leaves the cursor where it
   is). *)
PageLimits == 1 .. LimitMax

PageFrame ==
    UNCHANGED <<memVars, seedTotal, last, pgVars, authVars, httpVars, oauthVars, keyVars,
                verifyVars, bothVars, rlVars, rbacVars, auditVars, migrateVars, mainVars, userVars, revokeVars, xferVars, traceVars, streamVars>>

NextPage(limit) ==
    /\ PageFrame
    /\ LET page == StoreListTransactions(limit, cursor).value
       IN /\ received' = received \o [i \in DOMAIN page[1] |-> page[1][i].Sequence]
          /\ cursor' = IF page[1] = << >> THEN cursor ELSE page[2]

(* Store.CreateAccount, alone on the database *)
StoreCreateAccount(currency, amount) ==
    IF currency = ""
    THEN pgLast' = Result("CreateAccount", ErrInvalidCurrency, NoTx, 0) /\ UNCHANGED pgVars
    ELSE IF amount < 0
    THEN pgLast' = Result("CreateAccount", ErrInvalidAmount, NoTx, 0) /\ UNCHANGED pgVars
    ELSE LET id == Cardinality(PgAccounts(Len(pgLog))) + 1
         IN /\ Len(pgLog) < MaxMemOps
            /\ pgLog' = Append(pgLog, AccountEntry(id, currency, amount))
            /\ pgLast' = Result("CreateAccount", "", NoTx, id)
            /\ UNCHANGED <<seqgen, conn, started>>

(* Store.Transfer, alone on the database: validation, the idempotency lookup,
   the two account locks, the balance rows, the funds check, the debit, the
   credit (bigint arithmetic raises on overflow), the insert and the commit *)
StoreTransfer(fromID, toID, currency, amount, idemKey) ==
    LET n == Len(pgLog)
        found == {t \in PgTransactions(n) : t.IdempotencyKey = idemKey}
        missing(id) == ~BalanceRowExists(n, id, currency)
        w1 == IF missing(fromID) THEN << <<fromID, 0>> >> ELSE << >>
        w2 == IF missing(toID) /\ toID # fromID THEN << <<toID, 0>> >> ELSE << >>
        fromBal == PgBalance(n, fromID, currency)
        toBal == PgBalance(n, toID, currency) - (IF toID = fromID THEN amount ELSE 0)
        k == [IdleConn EXCEPT !.from = fromID, !.to = toID, !.currency = currency,
                              !.amount = amount, !.key = idemKey, !.snap = n,
                              !.seq = seqgen + 1,
                              !.writes = w1 \o w2 \o << <<fromID, -amount>>, <<toID, amount>> >>]
        tx == [ID |-> seqgen + 1, FromAccountID |-> fromID, ToAccountID |-> toID,
               Currency |-> currency, Amount |-> amount, IdempotencyKey |-> idemKey,
               Sequence |-> seqgen + 1]
        fails(err) == pgLast' = Result("Transfer", err, NoTx, 0) /\ UNCHANGED pgVars
    IN IF ~IsPositive(amount) THEN fails(ErrInvalidAmount)
       ELSE IF currency = "" THEN fails(ErrInvalidCurrency)
       ELSE IF idemKey # "" /\ found # {}
       THEN pgLast' = Result("Transfer", "", CHOOSE t \in found : TRUE, 0)
            /\ UNCHANGED pgVars
       ELSE IF fromID \notin PgAccounts(n) \/ toID \notin PgAccounts(n)
       THEN fails(ErrNotFound)
       ELSE IF fromBal < amount THEN fails(ErrInsufficientFunds)
       ELSE IF toBal + amount > MaxInt64 THEN fails(ErrOutOfRange)
       ELSE /\ Len(pgLog) < MaxMemOps
            /\ pgLog' = Commit(pgLog, k, tx)
            /\ seqgen' = seqgen + 1
            /\ pgLast' = Result("Transfer", "", tx, 0)
            /\ UNCHANGED <<conn, started>>

(* What a call of the caller of both backends leaves alone *)
BothFrame == UNCHANGED <<authVars, httpVars, oauthVars, keyVars, verifyVars, rlVars, rbacVars, auditVars, migrateVars, mainVars, pageVars, userVars, revokeVars, xferVars, traceVars, streamVars>>

(* the inputs of the caller of both backends: seeds, transfers between the
   first two accounts and some that must be refused, and for the reads
   <<id, currency>> and <<limit, afterSeq>>; account 3 is never created *)
BothSeedInputs == {<<"QZN", 1>>, <<"QZN", MaxInt64>>, <<"", 1>>, <<"QZN", -1>>}
BothTransferInputs ==
    ({1, 2} \X {1, 2} \X {"QZN"} \X {1} \X IdemKeys)
    \cup {<<1, 3, "QZN", 1, "">>, <<1, 1, "QZN", 2, "">>, <<1, 1, "USD", 1, "">>,
          <<1, 1, "QZN", 0, "">>, <<1, 1, "", 1, "">>}
BalanceInputs == {1, 3} \X {"QZN", "USD"}
ListInputs == (-1 .. (LimitMax + 1)) \X (0 .. 2)

BothCreateAccount(currency, amount) ==
    /\ BothFrame
    /\ CreateAccount(currency, amount)
    /\ StoreCreateAccount(currency, amount)

BothTransfer(fromID, toID, currency, amount, idemKey) ==
    /\ BothFrame
    /\ Transfer(fromID, toID, currency, amount, idemKey)
    /\ StoreTransfer(fromID, toID, currency, amount, idemKey)

BothGetAccount(id) ==
    /\ BothFrame
    /\ UNCHANGED <<memVars, seedTotal, pgVars>>
    /\ last' = GetAccount(id)
    /\ pgLast' = StoreGetAccount(id)

BothGetBalance(id, currency) ==
    /\ BothFrame
    /\ UNCHANGED <<memVars, seedTotal, pgVars>>
    /\ last' = GetBalance(id, currency)
    /\ pgLast' = StoreGetBalance(id, currency)

BothListTransactions(limit, afterSeq) ==
    /\ BothFrame
    /\ UNCHANGED <<memVars, seedTotal, pgVars>>
    /\ last' = ListTransactions(limit, afterSeq)
    /\ pgLast' = StoreListTransactions(limit, afterSeq)

----------------------------------------------------------------------------
(* Refresh-token rotation (internal/auth/service.go) over the map-backed
   refresh-token store.  A refresh token is the string id "." secret; the model
   keeps it as the sequence of its dot-separated parts. *)

Procs == 1 .. 2
AuthUsers == {"user-4"}
ErrInvalidToken == "invalid token"
ErrUnauthorized == "unauthorized"

(* s.refreshTTL, in ticks of the model's clock *)
RefreshTTL == 1

(* sha256 of a secret: injective on the secrets of the model *)
Hash(secret) == <<"sha256", secret>>

IdleCall == [pc |-> "idle", id |-> 0, UserID |-> ""]
NoPair == [err |-> "", presented |-> 0, RefreshToken |-> << >>]

(* the refresh tokens a client may present: every id the store can hold with
   its own secret, the first one with a wrong secret, and malformed strings *)
PresentedTokens ==
    {<<i, i>> : i \in 1 .. MaxTokens} \cup {<<1, -1>>, <<1>>, <<1, 0>>}

(* splitRefreshToken: exactly two non-empty parts (0 stands for the empty string) *)
splitRefreshToken(raw) ==
    IF Len(raw) # 2 THEN [ok |-> FALSE, id |-> 0, secret |-> 0]
    ELSE IF raw[1] = 0 \/ raw[2] = 0 THEN [ok |-> FALSE, id |-> 0, secret |-> 0]
    ELSE [ok |-> TRUE, id |-> raw[1], secret |-> raw[2]]

(* secureCompareHash *)
secureCompareHash(expectedHash, secret) == expectedHash = Hash(secret)

(* staticRefreshTokenStore.MarkRevoked *)
MarkRevokedNoop(store, id) == store
MarkRevoked(store, id) ==
    IF id \in DOMAIN store THEN [store EXCEPT ![id].Revoked = TRUE] ELSE store

(* generateRefreshToken and staticRefreshTokenStore.Create: the new record; the
   model's secret of token id is id *)
Create(store, id, userID, t) ==
    [i \in (DOMAIN store) \cup {id} |->
        IF i = id
        THEN [ID |-> id, UserID |-> userID, TokenHash |-> Hash(id),
              Revoked |-> FALSE, ExpiresAt |-> t + RefreshTTL]
        ELSE store[i]]

(* What a call on the auth service leaves alone *)
AuthFrame == UNCHANGED <<memVars, seedTotal, last, pgVars, httpVars, oauthVars, keyVars, verifyVars, bothVars, rlVars, rbacVars, auditVars, migrateVars, mainVars, pageVars, userVars, revokeVars, xferVars, traceVars, streamVars>>

(* a token call returns on process p *)
RtReturn(p, err, presented, token) ==
    /\ rtRes' = [err |-> err, presented |-> presented, RefreshToken |-> token]
    /\ rt' = [rt EXCEPT ![p] = IdleCall]

(* Service.IssueTokenPair: the password check, then mintTokens *)
IssueTokenPairCall(p, user, passwordOK) ==
    /\ rt[p].pc = "idle"
    /\ IF userStatus[user] # "active" \/ ~passwordOK
       THEN /\ RtReturn(p, ErrUnauthorized, 0, << >>)
            /\ UNCHANGED <<refreshTokens, now, rotated>>
       ELSE LET id == Cardinality(DOMAIN refreshTokens) + 1
            IN /\ id <= MaxTokens
               /\ refreshTokens' = Create(refreshTokens, id, user, now)
               /\ RtReturn(p, "", 0, <<id, id>>)
               /\ UNCHANGED <<now, rotated>>

(* a call of Service.IssueTokenPair on the service itself *)
IssueTokenPair(p, user, passwordOK) ==
    /\ AuthFrame
    /\ IssueTokenPairCall(p, user, passwordOK)

(* Service.RefreshTokenPair up to the comparison of the secret: the token is
   split, the record is read from the store and checked *)
RefreshFind(p, raw) ==
    /\ AuthFrame
    /\ rt[p].pc = "idle"
    /\ LET parts == splitRefreshToken(raw)
       IN IF ~parts.ok \/ parts.id \notin DOMAIN refreshTokens
          THEN /\ RtReturn(p, ErrInvalidToken, parts.id, << >>)
               /\ UNCHANGED <<refreshTokens, now, rotated>>
          ELSE LET record == refreshTokens[parts.id]
               IN IF record.Revoked \/ now > record.ExpiresAt
                  THEN /\ RtReturn(p, ErrInvalidToken, parts.id, << >>)
                       /\ UNCHANGED <<refreshTokens, now, rotated>>
                  ELSE /\ rt' = [rt EXCEPT ![p] =
                                   [pc |-> IF secureCompareHash(record.TokenHash, parts.secret)
                                           THEN "revoke" ELSE "reject",
                                    id |-> record.ID, UserID |-> record.UserID]]
                       /\ UNCHANGED <<refreshTokens, now, rtRes, rotated>>

(* the secret does not match: the record is revoked and the call fails *)
RefreshReject(p) ==
    /\ AuthFrame
    /\ rt[p].pc = "reject"
    /\ refreshTokens' = MarkRevoked(refreshTokens, rt[p].id)
    /\ RtReturn(p, ErrInvalidToken, rt[p].id, << >>)
    /\ UNCHANGED <<now, rotated>>

(* s.Principal, then store.MarkRevoked(record.ID): the old token is revoked *)
RefreshRevoke(p) ==
    /\ AuthFrame
    /\ rt[p].pc = "revoke"
    /\ refreshTokens' = MarkRevoked(refreshTokens, rt[p].id)
    /\ rt' = [rt EXCEPT ![p].pc = "mint"]
    /\ UNCHANGED <<now, rtRes, rotated>>

(* s.mintTokens and the return of the new pair *)
RefreshMint(p) ==
    /\ AuthFrame
    /\ rt[p].pc = "mint"
    /\ LET id == Cardinality(DOMAIN refreshTokens) + 1
       IN /\ id <= MaxTokens
          /\ refreshTokens' = Create(refreshTokens, id, rt[p].UserID, now)
          /\ rotated' = rotated \cup {rt[p].id}
          /\ RtReturn(p, "", rt[p].id, <<id, id>>)
          /\ UNCHANGED now

(* RBACService.UpdateUser with a status: the row of the user is updated *)
UserStatuses == {"active", "disabled"}

UpdateUser(userID, status) ==
    /\ UNCHANGED <<memVars, seedTotal, last, pgVars, authVars, httpVars, oauthVars, keyVars,
                   verifyVars, bothVars, rlVars, rbacVars, auditVars, migrateVars, mainVars,
                   pageVars, revokeVars, xferVars, traceVars, streamVars>>
    /\ userStatus[userID] # status
    /\ userStatus' = [userStatus EXCEPT ![userID] = status]

(* time passes, until the tokens minted at the start have expired *)
Tick ==
    /\ AuthFrame
    /\ now <= RefreshTTL
    /\ now' = now + 1
    /\ UNCHANGED <<refreshTokens, rt, rtRes, rotated>>

----------------------------------------------------------------------------
(* The HTTP API (package httpapi): API.Handler wraps the mux in the chain
   withAuth, CORS, RateLimit; the ledger routes sit behind RequireRole, the
   RBAC routes call ensurePermissions.  Middlewares that only add headers or
   logs (RequestID, LoggingJSON, Recover, SecurityHeaders, MaxBodyBytes) pass
   the request on unchanged.  A path is the sequence of its segments. *)

PermLedgerCreateAccount == "ledger.account.create"
PermissionManagePermissions == "auth.manage_permissions"

RoleIDs == {"role-1", "role-2"}

(* the role assignments of the RBAC store when the API starts *)
Assignments == [u \in {"alice", "bob"} |-> IF u = "alice" THEN {"role-1"} ELSE {"role-2"}]

(* RBACService.UserPermissions: the permissions of the roles assigned to the
   user now *)
UserPermissions(userID) ==
    IF userID \in DOMAIN assignments
    THEN UNION {rolePerms[r] : r \in assignments[userID]}
    ELSE {}

(* strings.ToLower and strings.ToUpper on the strings of the model *)
ToLower(str) ==
    CASE str = "Admin" -> "admin"
      [] str = "Bearer" -> "bearer"
      [] str = "QZN" -> "qzn"
      [] OTHER -> str
ToUpper(str) ==
    CASE str = "qzn" -> "QZN"
      [] str = "admin" -> "ADMIN"
      [] OTHER -> str

(* dedupeRoles: trimmed, lower-cased, without the empty role *)
dedupeRoles(roles) == {ToLower(r) : r \in roles} \ {""}

(* A JWT: its subject and roles claims, whether its signature verifies under
   the service's secret, and whether its expiry has passed *)
NoToken == [sub |-> "", roles |-> {}, signed |-> FALSE, expired |-> FALSE]
Token(sub, roles, signed, expired) ==
    [sub |-> sub, roles |-> roles, signed |-> signed, expired |-> expired]
Tokens ==
    { Token("alice", {"Admin"}, TRUE, FALSE),
      Token("bob", {"viewer"}, TRUE, FALSE),
      Token("alice", {"admin"}, FALSE, FALSE),
      Token("alice", {"admin"}, TRUE, TRUE) }

(* the Authorization headers of the model: absent, another scheme, the scheme
   in either case, with and without a token *)
AuthHeaders ==
    { [scheme |-> "", token |-> NoToken],
      [scheme |-> "Basic", token |-> Token("alice", {"Admin"}, TRUE, FALSE)],
      [scheme |-> "Bearer", token |-> NoToken],
      [scheme |-> "bearer", token |-> Token("alice", {"Admin"}, TRUE, FALSE)] }
    \cup { [scheme |-> "Bearer", token |-> t] : t \in Tokens }

(* request bodies: none, one that is not the JSON the handler expects, and
   the JSON payloads of the three routes that read one *)
NoBody == [kind |-> "none"]
BadBody == [kind |-> "malformed"]
ValidAccountBody == [kind |-> "account", currency |-> "qzn", initial_amount |-> 1]
AccountBodies ==
    { ValidAccountBody,
      [kind |-> "account", currency |-> "", initial_amount |-> 1],
      [kind |-> "account", currency |-> "QZN", initial_amount |-> -1] }
TransferBodies ==
    { [kind |-> "transfer", from_id |-> 1, to_id |-> 2, currency |-> "qzn",
       amount |-> 1, idem |-> k] : k \in IdemKeys }
    \cup { [kind |-> "transfer", from_id |-> 1, to_id |-> 2, currency |-> "QZN",
            amount |-> 0, idem |-> ""],
           [kind |-> "transfer", from_id |-> 2, to_id |-> 9, currency |-> "QZN",
            amount |-> 1, idem |-> ""] }
PermissionBodies ==
    { [kind |-> "permissions", permissions |-> ps] :
        ps \in {{}, {PermLedgerCreateAccount}} }

AccountsPath == <<"v1", "accounts">>
TransfersPath == <<"v1", "transfers">>
RolePermissionsPath == <<"v1", "roles", "role-2", "permissions">>

Request(method, path, authorization, body) ==
    [method |-> method, path |-> path, authorization |-> authorization, body |-> body]

(* the headers sent with most requests: none, and the two users' tokens *)
UsualHeaders ==
    { [scheme |-> "", token |-> NoToken],
      [scheme |-> "Bearer", token |-> Token("alice", {"Admin"}, TRUE, FALSE)],
      [scheme |-> "Bearer", token |-> Token("bob", {"viewer"}, TRUE, FALSE)] }

(* the requests of the model: GET and OPTIONS on every path, the payloads on
   the routes that read them, and the creation of an account under every
   Authorization header *)
Requests ==
    { Request(m, p, h, NoBody) :
        m \in {"GET", "OPTIONS"},
        p \in {<<"healthz">>, <<"assets", "app.css">>, AccountsPath, TransfersPath,
               RolePermissionsPath},
        h \in UsualHeaders }
    \cup { Request("POST", AccountsPath, h, b) :
             h \in UsualHeaders, b \in AccountBodies \cup {BadBody} }
    \cup { Request("POST", AccountsPath, h, ValidAccountBody) : h \in AuthHeaders }
    \cup { Request("POST", TransfersPath, h, b) : h \in UsualHeaders, b \in TransferBodies }
    \cup { Request("PUT", RolePermissionsPath, h, b) :
             h \in UsualHeaders, b \in PermissionBodies }

(* a response: the status, the error code of WWW-Authenticate, and the
   function of the chain that wrote it *)
Response(status, www, by) == [status |-> status, www |-> www, by |-> by]
NoResponse == Response(0, "", "")

(* the request context: auth.ContextWithUser stores the trimmed user id, and
   the roles only when there are any *)
NoContext == [userID |-> "", roles |-> {}]
ContextWithUser(userID, roles) == [userID |-> userID, roles |-> dedupeRoles(roles)]

(* auth.UserIDFromContext: ok only for a non-empty id *)
UserIDFromContext(ctx) == ctx.userID # ""

(* auth.HasRole *)
HasRole(ctx, role) == ToLower(role) # "" /\ ToLower(role) \in ctx.roles

(* publicPaths and publicPrefixes *)
publicPaths ==
    { <<"v1", "auth", "token">>, <<"v1", "auth", "oauth", "token">>,
      <<"v1", "auth", "oauth", "authorize">>, <<"metrics">>, <<"healthz">>, <<"readyz">>,
      <<"openapi.yaml">>, << >>, <<"admin", "dashboard">>, <<"banks", "dashboard">> }
publicPrefixes == { <<"assets">> }

(* isPublicPath: an exact public path, or a path under a public prefix *)
isPublicPath(path) ==
    \/ path \in publicPaths
    \/ \E prefix \in publicPrefixes :
          /\ Len(path) > Len(prefix)
          /\ SubSeq(path, 1, Len(prefix)) = prefix

(* extractBearerToken: the scheme is compared in lower case *)
extractBearerTokenAnyScheme(header) ==
    IF header.token = NoToken THEN [err |-> "missing bearer token", token |-> NoToken]
    ELSE [err |-> "", token |-> header.token]
extractBearerToken(header) ==
    IF header.scheme = "" THEN [err |-> "missing bearer token", token |-> NoToken]
    ELSE IF ToLower(header.scheme) # ToLower("Bearer")
    THEN [err |-> "invalid authorization scheme", token |-> NoToken]
    ELSE IF header.token = NoToken THEN [err |-> "missing bearer token", token |-> NoToken]
    ELSE [err |-> "", token |-> header.token]

(* validateClaims: subject present, not expired *)
validateClaims(token) == token.sub # "" /\ ~token.expired

(* auth.ParseAndValidate; secretOK says whether the signing secret could be
   loaded, an error that is not ErrInvalidToken *)
ParseAndValidate(token, secretOK) ==
    IF token = NoToken THEN [err |-> ErrInvalidToken, Subject |-> "", Roles |-> {}]
    ELSE IF ~secretOK THEN [err |-> "secret unavailable", Subject |-> "", Roles |-> {}]
    ELSE IF ~token.signed \/ ~validateClaims(token)
    THEN [err |-> ErrInvalidToken, Subject |-> "", Roles |-> {}]
    ELSE [err |-> "", Subject |-> token.sub, Roles |-> dedupeRoles(token.roles)]

(* API.withAuth of an API built with an auth service: either it answers the
   request itself (done), or it passes it on with the context it built *)
withAuth(r, secretOK) ==
    IF r.method = "OPTIONS" \/ isPublicPath(r.path)
    THEN [done |-> FALSE, resp |-> NoResponse, ctx |-> NoContext]
    ELSE LET bearer == extractBearerToken(r.authorization)
             claims == ParseAndValidate(bearer.token, secretOK)
         IN IF bearer.err # ""
            THEN [done |-> TRUE, resp |-> Response(401, "invalid_request", "withAuth"),
                  ctx |-> NoContext]
            ELSE IF claims.err = ErrInvalidToken
            THEN [done |-> TRUE, resp |-> Response(401, "invalid_token", "withAuth"),
                  ctx |-> NoContext]
            ELSE IF claims.err # ""
            THEN [done |-> TRUE, resp |-> Response(500, "server_error", "withAuth"),
                  ctx |-> NoContext]
            ELSE [done |-> FALSE, resp |-> NoResponse,
                  ctx |-> ContextWithUser(claims.Subject, claims.Roles)]

(* RequireRole(roles...): the response it writes itself, or NoResponse when it
   calls the handler it guards *)
RequireRole(roles, ctx) ==
    IF roles = {} THEN NoResponse
    ELSE IF ~UserIDFromContext(ctx) THEN Response(401, "invalid_token", "RequireRole")
    ELSE IF \E role \in roles : HasRole(ctx, role) THEN NoResponse
    ELSE Response(403, "insufficient_scope", "RequireRole")

(* hasAllPermissions *)
hasAllPermissions(granted, required) ==
    \/ required \ {""} = {}
    \/ granted # {} /\ (required \ {""}) \subseteq granted

(* API.ensurePermissions: the response it writes itself, or NoResponse when
   the handler may go on *)
ensurePermissions(ctx, perms, handler) ==
    IF perms = {} THEN NoResponse
    ELSE IF ~UserIDFromContext(ctx) THEN Response(401, "invalid_token", handler)
    ELSE IF ~hasAllPermissions(UserPermissions(ctx.userID), perms)
    THEN Response(403, "insufficient_scope", handler)
    ELSE NoResponse

(* handleLedgerError *)
handleLedgerError(err) ==
    CASE err \in {ErrInvalidAmount, ErrInvalidCurrency} -> 400
      [] err = ErrInsufficientFunds -> 409
      [] err = ErrNotFound -> 404
      [] OTHER -> 500

(* a handler answers without touching the ledger or the RBAC store *)
Answer(response) ==
    /\ resp' = response
    /\ UNCHANGED <<memVars, seedTotal, last, rolePerms>>

(* API.createAccount *)
createAccount(r) ==
    IF r.body.kind # "account" THEN Answer(Response(400, "", "createAccount"))
    ELSE IF r.body.currency = "" \/ r.body.initial_amount < 0
    THEN Answer(Response(400, "", "createAccount"))
    ELSE /\ CreateAccount(ToUpper(r.body.currency), r.body.initial_amount)
         /\ resp' = Response(IF last'.err = "" THEN 201 ELSE handleLedgerError(last'.err),
                             "", "createAccount")
         /\ UNCHANGED rolePerms

(* API.handleAccountsCollection *)
handleAccountsCollection(r) ==
    IF r.method = "POST" THEN createAccount(r)
    ELSE Answer(Response(405, "", "handleAccountsCollection"))

(* API.transfer *)
transfer(r) ==
    IF r.body.kind # "transfer" THEN Answer(Response(400, "", "transfer"))
    ELSE IF r.body.currency = "" \/ r.body.amount <= 0
    THEN Answer(Response(400, "", "transfer"))
    ELSE /\ Transfer(r.body.from_id, r.body.to_id, ToUpper(r.body.currency),
                     r.body.amount, r.body.idem)
         /\ resp' = Response(IF last'.err = "" THEN 201 ELSE handleLedgerError(last'.err),
                             "", "transfer")
         /\ UNCHANGED rolePerms

(* API.handleTransfers *)
handleTransfers(r) ==
    IF r.method = "POST" THEN transfer(r)
    ELSE Answer(Response(405, "", "handleTransfers"))

(* API.handleRoleResource, the case /v1/roles/{id}/permissions *)
handleRoleResource(r, ctx) ==
    LET denied == ensurePermissions(ctx, {PermissionManagePermissions}, "handleRoleResource")
    IN IF r.method # "PUT" THEN Answer(Response(405, "", "handleRoleResource"))
       ELSE IF denied # NoResponse THEN Answer(denied)
       ELSE IF r.body.kind # "permissions"
       THEN Answer(Response(400, "", "handleRoleResource"))
       ELSE /\ rolePerms' = [rolePerms EXCEPT ![r.path[3]] = r.body.permissions]
            /\ resp' = Response(204, "", "handleRoleResource")
            /\ UNCHANGED <<memVars, seedTotal, last>>

(* the routes of API.New *)
mux(r, ctx) ==
    IF r.path = AccountsPath
    THEN LET denied == RequireRole({"admin"}, ctx)
         IN IF denied # NoResponse THEN Answer(denied) ELSE handleAccountsCollection(r)
    ELSE IF r.path = TransfersPath
    THEN LET denied == RequireRole({"admin"}, ctx)
         IN IF denied # NoResponse THEN Answer(denied) ELSE handleTransfers(r)
    ELSE IF Len(r.path) = 4 /\ SubSeq(r.path, 1, 2) = <<"v1", "roles">>
    THEN handleRoleResource(r, ctx)
    ELSE IF r.path = <<"healthz">> THEN Answer(Response(200, "", "Healthz"))
    ELSE IF Len(r.path) > 1 /\ r.path[1] = "assets"
    THEN Answer(Response(200, "", "FileServer"))
    ELSE Answer(Response(200, "", "MapPage"))

(* the handlers that read or write the ledger or the RBAC store *)
LedgerOrRBACHandlers ==
    {"createAccount", "handleAccountsCollection", "transfer", "handleTransfers",
     "handleRoleResource"}

(* What a request to the API leaves alone *)
HTTPFrame == UNCHANGED <<pgVars, authVars, oauthVars, keyVars, verifyVars, bothVars, rlVars, rbacVars, auditVars, migrateVars, mainVars, pageVars, userVars, revokeVars, xferVars, traceVars, streamVars>>

(* what the server finds when a request arrives: all is well, the signing
   secret cannot be loaded, or the client's rate-limit bucket is empty *)
Normal == [secretOK |-> TRUE, allow |-> TRUE]
Conditions == {Normal, [secretOK |-> FALSE, allow |-> TRUE], [secretOK |-> TRUE, allow |-> FALSE]}

(* the arrivals of the model: every request when all is well, and the creation
   of an account under every condition *)
Arrivals ==
    (Requests \X {Normal})
    \cup ({r \in Requests : r.method = "POST" /\ r.path = AccountsPath
                              /\ r.body = ValidAccountBody} \X Conditions)

(* API.Handler: withAuth, CORS (which answers OPTIONS with 204), RateLimit
   (allow is its limiter's verdict), then the mux *)
Handler(r, secretOK, allow) ==
    LET authn == withAuth(r, secretOK)
    IN IF authn.done THEN Answer(authn.resp)
       ELSE IF r.method = "OPTIONS" THEN Answer(Response(204, "", "CORS"))
       ELSE IF ~allow THEN Answer(Response(429, "", "RateLimit"))
       ELSE mux(r, authn.ctx)

(* API.Handler serves one request; what it logs is left aside *)
ServeHTTP(r, secretOK, allow) ==
    /\ HTTPFrame
    /\ Handler(r, secretOK, allow)

(* the names of the roles, as access tokens carry them *)
RoleNames == [r \in RoleIDs |-> IF r = "role-1" THEN "admin" ELSE "viewer"]

(* auth.GenerateToken(userID, roles, ttl): a signed token with the roles given *)
GenerateToken(userID, roles) == Token(userID, dedupeRoles(roles), TRUE, FALSE)

RevokeFrame ==
    UNCHANGED <<memVars, seedTotal, last, pgVars, authVars, httpVars, oauthVars, keyVars,
                verifyVars, bothVars, rlVars, rbacVars, auditVars, migrateVars, mainVars,
                pageVars, userVars, xferVars, traceVars, streamVars>>

(* a user logs in and is issued an access token with the roles held then *)
IssueAccessToken(userID) ==
    /\ RevokeFrame
    /\ issued' = issued \cup
                   {GenerateToken(userID, {RoleNames[r] : r \in assignments[userID]})}
    /\ UNCHANGED assignments

(* Store.RemoveRoleAssignment: the row is deleted (ErrNotFound without one) *)
RemoveRoleAssignment(userID, roleID) ==
    /\ RevokeFrame
    /\ assignments' = [assignments EXCEPT ![userID] = @ \ {roleID}]
    /\ UNCHANGED issued

(* the requests that need a role or a permission, with an issued token *)
GuardedRequests(tokens) ==
    { Request("POST", AccountsPath, [scheme |-> "Bearer", token |-> t], ValidAccountBody) :
        t \in tokens }
    \cup { Request("PUT", RolePermissionsPath, [scheme |-> "Bearer", token |-> t],
                   [kind |-> "permissions", permissions |-> {}]) : t \in tokens }

(* genID(): the id RequestID generates *)
GeneratedID == "generated"

(* the X-Request-Id headers of the model: absent and given *)
RequestIDHeaders == {"", "req-1"}

(* RequestID: the id is the header or a generated one; it goes on the response
   and into the context under httpapi's requestIDKey.  Nothing in the chain
   calls audit.WithRequestID, so the context has no value under the key of
   package audit. *)
RequestID(header) ==
    LET rid == IF header = "" THEN GeneratedID ELSE header
    IN [response_header |-> rid, request_id |-> rid, audit_request_id |-> ""]

(* audit.LogEvent: the entry written, with the request id found under the
   key of package audit and the user of the context *)
LogEvent(ctx, userID, event) ==
    [event |-> event, request_id |-> ctx.audit_request_id, user_id |-> userID]

(* the audit event of a request, given the response of its handler: the
   handlers call a.audit after the operation has succeeded and before they
   write the response ("" when the handler audits nothing) *)
AuditEvent(r, response, replayed) ==
    IF response.by = "createAccount" /\ response.status = 201
    THEN "ledger.account.create"
    ELSE IF response.by = "transfer" /\ response.status = 201
    THEN IF replayed THEN "ledger.transfer.idempotent_replay" ELSE "ledger.transfer.execute"
    ELSE IF response.by = "handleRoleResource" /\ response.status = 204
    THEN "rbac.role.permissions.update"
    ELSE ""

(* the requests that ask for an operation that is audited, by an
   administrator and without a token *)
AuditRequests ==
    {r \in Requests :
        /\ r.method \in {"POST", "PUT"}
        /\ r.authorization \in
              { [scheme |-> "", token |-> NoToken],
                [scheme |-> "Bearer", token |-> Token("alice", {"Admin"}, TRUE, FALSE)] }}

(* a chain that would give up with 500 when the audit entry cannot be
   written *)
ServeHTTPAuditAborting(r, header, fails) ==
    /\ UNCHANGED <<pgVars, authVars, oauthVars, keyVars, verifyVars, bothVars, rlVars,
                   rbacVars, migrateVars, mainVars, pageVars, userVars, revokeVars, xferVars, traceVars, streamVars>>
    /\ IF fails
       THEN /\ Answer(Response(500, "", "audit"))
            /\ audited' = << >>
            /\ auditFailures' = <<"audit_log_failed">>
            /\ responseRid' = RequestID(header).response_header
       ELSE /\ Handler(r, TRUE, TRUE)
            /\ UNCHANGED auditVars
(* API.Handler serves a request under RequestID, with what it writes to the
   audit log: API.audit calls audit.LogEvent and, when that fails, logs
   audit_log_failed and returns to the handler all the same *)
ServeHTTPAudit(r, header, fails) ==
    /\ UNCHANGED <<pgVars, authVars, oauthVars, keyVars, verifyVars, bothVars, rlVars,
                   rbacVars, migrateVars, mainVars, pageVars, userVars, revokeVars, xferVars, traceVars, streamVars>>
    /\ Handler(r, TRUE, TRUE)
    /\ LET ctx == RequestID(header)
           replayed == r.body.kind = "transfer" /\ r.body.idem # ""
                         /\ r.body.idem \in DOMAIN idem
           event == AuditEvent(r, resp', replayed)
       IN /\ responseRid' = ctx.response_header
          /\ IF event = ""
             THEN audited' = << >> /\ auditFailures' = << >>
             ELSE IF fails
             THEN audited' = << >> /\ auditFailures' = <<event>>
             ELSE /\ audited' = <<LogEvent(ctx, r.authorization.token.sub, event)>>
                  /\ auditFailures' = << >>

(* API.transfer, by two processes at a time, on the in-memory ledger: the
   handler validates the request and reads start := time.Now().UTC(); then it
   calls a.ledger.Transfer, decides from CreatedAt whether the transaction was
   replayed, and audits.  Every reading of the clock is later than the one
   before it. *)
IdleTransfer == [pc |-> "idle", body |-> NoBody, start |-> 0]

TransferFrame ==
    UNCHANGED <<pgVars, authVars, httpVars, oauthVars, keyVars, verifyVars, bothVars, rlVars,
                rbacVars, auditVars, migrateVars, mainVars, pageVars, userVars, revokeVars, traceVars, streamVars>>

(* an account is created for the transfers to use *)
TransferSeed(currency, amount) ==
    /\ TransferFrame
    /\ CreateAccount(currency, amount)
    /\ UNCHANGED xferVars

(* the handler up to start := time.Now().UTC() *)
transferStart(p, body) ==
    /\ TransferFrame
    /\ xfer[p].pc = "idle"
    /\ body.kind = "transfer" /\ body.currency # "" /\ body.amount > 0
    /\ wallClock < MaxClock
    /\ wallClock' = wallClock + 1
    /\ xfer' = [xfer EXCEPT ![p] = [pc |-> "called", body |-> body, start |-> wallClock + 1]]
    /\ UNCHANGED <<memVars, seedTotal, last, createdAt, auditLog>>

(* replayed := idem != "" && !tx.CreatedAt.After(start) *)
Replayed(idemKey, created, start) == idemKey # "" /\ ~(created > start)

(* the rest of the handler: a.ledger.Transfer, which stamps a transaction it
   creates with time.Now().UTC(), and the audit event *)
transferFinish(p) ==
    /\ TransferFrame
    /\ xfer[p].pc = "called"
    /\ LET body == xfer[p].body
       IN /\ Transfer(body.from_id, body.to_id, ToUpper(body.currency), body.amount, body.idem)
          /\ xfer' = [xfer EXCEPT ![p] = IdleTransfer]
          /\ IF Len(txs') > Len(txs)
             THEN /\ wallClock' = wallClock + 1
                  /\ createdAt' = Append(createdAt, wallClock + 1)
             ELSE UNCHANGED <<wallClock, createdAt>>
          /\ IF last'.err # ""
             THEN UNCHANGED auditLog
             ELSE auditLog' =
                    Append(auditLog,
                           [event |-> IF Replayed(body.idem, createdAt'[last'.tx.ID],
                                                  xfer[p].start)
                                      THEN "ledger.transfer.idempotent_replay"
                                      ELSE "ledger.transfer.execute",
                            resource_id |-> last'.tx.ID,
                            existing |-> Len(txs') = Len(txs)])

(* the middlewares with obs.Instrument next to the mux *)
LayersInstrumentInnermost ==
    <<"RequestID", "LoggingJSON", "withAuth", "Recover", "SecurityHeaders", "CORS",
      "RateLimit", "MaxBodyBytes", "Instrument", "mux">>

----------------------------------------------------------------------------
(* The event stream (stream.go): Subscribe registers a buffered channel under
   s.mu.Lock and starts a goroutine that, once the context is done, takes the
   lock again, deletes the subscriber and closes its channel; Publish holds
   s.mu.RLock while it ranges over the subscribers. *)
SubIDs == 0 .. MaxSubs - 1
NoWriter == [kind |-> "none", id |-> 0]
NoChan == [made |-> FALSE, closed |-> FALSE, buf |-> << >>]
IdlePublish == [pc |-> "idle", evt |-> 0, todo |-> {}]

StreamFrame ==
    UNCHANGED <<memVars, seedTotal, last, pgVars, authVars, httpVars, oauthVars, keyVars,
                verifyVars, bothVars, rlVars, rbacVars, auditVars, migrateVars, mainVars,
                pageVars, userVars, revokeVars, xferVars, traceVars>>

(* a Lock that does not wait for the readers *)
CanLockDespiteReaders == mu.w = NoWriter

(* s.mu.Lock() returns: nobody holds the mutex *)
CanLock == mu.w = NoWriter /\ mu.r = {}

(* s.mu.RLock() returns: no writer holds the mutex *)
CanRLock == mu.w = NoWriter

(* Subscribe: ch := make(chan TransferEvent, 16); s.mu.Lock() *)
SubscribeLock ==
    /\ StreamFrame
    /\ nextID < MaxSubs
    /\ CanLock
    /\ mu' = [mu EXCEPT !.w = [kind |-> "Subscribe", id |-> nextID]]
    /\ chans' = [chans EXCEPT ![nextID] = [made |-> TRUE, closed |-> FALSE, buf |-> << >>]]
    /\ UNCHANGED <<subs, nextID, subCtx, pub, published, panicked>>

(* Subscribe: id := s.next; s.next++; s.subs[id] = ch; s.mu.Unlock(); go ... *)
SubscribeRegister ==
    /\ StreamFrame
    /\ mu.w.kind = "Subscribe"
    /\ subs' = subs \cup {nextID}
    /\ nextID' = nextID + 1
    /\ subCtx' = [subCtx EXCEPT ![nextID] = "live"]
    /\ mu' = [mu EXCEPT !.w = NoWriter]
    /\ UNCHANGED <<chans, pub, published, panicked>>

(* the context of subscriber id ends (the client went away): <-ctx.Done()
   returns in its goroutine *)
CtxDone(id) ==
    /\ StreamFrame
    /\ subCtx[id] = "live"
    /\ subCtx' = [subCtx EXCEPT ![id] = "done"]
    /\ UNCHANGED <<subs, nextID, mu, chans, pub, published, panicked>>

(* the goroutine of subscriber id: s.mu.Lock() *)
CloseLock(id) ==
    /\ StreamFrame
    /\ subCtx[id] = "done"
    /\ CanLock
    /\ mu' = [mu EXCEPT !.w = [kind |-> "close", id |-> id]]
    /\ subCtx' = [subCtx EXCEPT ![id] = "locked"]
    /\ UNCHANGED <<subs, nextID, chans, pub, published, panicked>>

(* the goroutine of subscriber id: delete(s.subs, id); close(ch);
   s.mu.Unlock() *)
CloseChan(id) ==
    /\ StreamFrame
    /\ subCtx[id] = "locked"
    /\ subs' = subs \ {id}
    /\ chans' = [chans EXCEPT ![id].closed = TRUE]
    /\ mu' = [mu EXCEPT !.w = NoWriter]
    /\ subCtx' = [subCtx EXCEPT ![id] = "closed"]
    /\ UNCHANGED <<nextID, pub, published, panicked>>

(* the subscriber's handler takes an event from its channel (for event :=
   range ch) *)
Receive(id) ==
    /\ StreamFrame
    /\ chans[id].buf # << >>
    /\ chans' = [chans EXCEPT ![id].buf = Tail(@)]
    /\ UNCHANGED <<subs, nextID, mu, subCtx, pub, published, panicked>>

(* Publish: s.mu.RLock(); the range over s.subs begins *)
PublishRLock(p) ==
    /\ StreamFrame
    /\ pub[p].pc = "idle"
    /\ published < MaxEvents
    /\ CanRLock
    /\ mu' = [mu EXCEPT !.r = @ \cup {p}]
    /\ published' = published + 1
    /\ pub' = [pub EXCEPT ![p] = [pc |-> "range", evt |-> published + 1, todo |-> subs]]
    /\ UNCHANGED <<subs, nextID, chans, subCtx, panicked>>

(* select { case ch <- evt: default: } on an open channel: with room in the
   buffer the event is sent, without room the default case is taken *)
SelectSendEvicts(ch, evt) ==
    IF Len(ch.buf) < ChanCap THEN [ch EXCEPT !.buf = Append(@, evt)]
    ELSE [ch EXCEPT !.buf = Append(Tail(@), evt)]
SelectSend(ch, evt) ==
    IF Len(ch.buf) < ChanCap THEN [ch EXCEPT !.buf = Append(@, evt)] ELSE ch

(* Publish: one turn of the loop, for the subscriber id the range yields
   (in no fixed order); a send on a closed channel panics *)
PublishSelect(p, id) ==
    /\ StreamFrame
    /\ pub[p].pc = "range"
    /\ id \in pub[p].todo
    /\ pub' = [pub EXCEPT ![p].todo = @ \ {id}]
    /\ IF chans[id].closed
       THEN /\ panicked' = TRUE
            /\ UNCHANGED chans
       ELSE /\ chans' = [chans EXCEPT ![id] = SelectSend(@, pub[p].evt)]
            /\ UNCHANGED panicked
    /\ UNCHANGED <<subs, nextID, mu, subCtx, published>>

(* Publish: the range is over; the deferred s.mu.RUnlock() *)
PublishReturn(p) ==
    /\ StreamFrame
    /\ pub[p].pc = "range"
    /\ pub[p].todo = {}
    /\ mu' = [mu EXCEPT !.r = @ \ {p}]
    /\ pub' = [pub EXCEPT ![p] = IdlePublish]
    /\ UNCHANGED <<subs, nextID, chans, subCtx, published, panicked>>

(* API.Handler: the middlewares around the mux, outermost first *)
Layers ==
    <<"Instrument", "RequestID", "LoggingJSON", "withAuth", "Recover", "SecurityHeaders",
      "CORS", "RateLimit", "MaxBodyBytes", "mux">>

LayerNames == {Layers[i] : i \in DOMAIN Layers}

Depth(layer) == CHOOSE i \in DOMAIN Layers : Layers[i] = layer

(* the innermost layer a request gets to: the layer that answers it *)
AnsweredBy(r, secretOK, allow) ==
    IF withAuth(r, secretOK).done THEN "withAuth"
    ELSE IF r.method = "OPTIONS" THEN "CORS"
    ELSE IF ~allow THEN "RateLimit"
    ELSE "mux"

(* API.Handler serves one request: each layer is entered in turn, down to the
   one that answers *)
ServeHTTPLayers(r, secretOK, allow) ==
    /\ UNCHANGED <<pgVars, authVars, oauthVars, keyVars, verifyVars, bothVars, rlVars,
                   rbacVars, auditVars, migrateVars, mainVars, pageVars, userVars,
                   revokeVars, xferVars, streamVars>>
    /\ Handler(r, secretOK, allow)
    /\ passed' = SubSeq(Layers, 1, Depth(AnsweredBy(r, secretOK, allow)))

(* Recover, when the handler it wraps panics: http.Error(w, ..., 500), which
   sets the status only if no header has been written yet (written: the
   status the client already got) *)
RecoverNothing(written) == Response(written, "", "mux")
Recover(written) ==
    IF written # 0 THEN Response(written, "", "mux") ELSE Response(500, "", "Recover")

(* the requests during which the model lets a panic happen *)
PanicRequests ==
    { Request("GET", <<"healthz">>, [scheme |-> "", token |-> NoToken], NoBody),
      Request("OPTIONS", AccountsPath, [scheme |-> "", token |-> NoToken], NoBody),
      Request("POST", AccountsPath, [scheme |-> "", token |-> NoToken], ValidAccountBody),
      Request("POST", AccountsPath,
              [scheme |-> "Bearer", token |-> Token("alice", {"Admin"}, TRUE, FALSE)],
              ValidAccountBody) }

(* API.Handler serves request r and the code of layer `at` panics before it
   has changed a store; in the mux the handler may have written the header
   with status `written` already (0: not yet).  A panic that Recover does not
   catch ends in net/http's conn.serve, which logs it and closes the
   connection: the client gets no response. *)
ServeHTTPPanic(r, at, written) ==
    /\ HTTPFrame
    /\ at # "Recover"
    /\ Depth(at) <= Depth(AnsweredBy(r, TRUE, TRUE))
    /\ written # 0 => at = "mux"
    /\ IF Depth(at) < Depth("Recover")
       THEN Answer(Response(0, "", "conn.serve"))
       ELSE Answer(Recover(written))

(* the token requests with grant_type password: a user with the right and
   with a wrong password, and one without a password *)
TokenRequest(email, password) == [Email |-> email, Password |-> password]
TokenRequests ==
    { TokenRequest("user-4", "secret"), TokenRequest("user-4", "wrong"),
      TokenRequest("user-4", "") }

(* API.passwordGrant, reached through POST /v1/auth/token (a public path) with
   grant_type password; the stored password of the user is "secret" *)
passwordGrant(p, req) ==
    /\ UNCHANGED <<memVars, seedTotal, last, pgVars, rolePerms, oauthVars, keyVars,
                   verifyVars, bothVars, rlVars, rbacVars, auditVars, migrateVars, mainVars, pageVars, userVars, revokeVars, xferVars, traceVars, streamVars>>
    /\ IF req.Email = "" \/ req.Password = ""
       THEN /\ resp' = Response(400, "", "passwordGrant")
            /\ UNCHANGED authVars
       ELSE /\ IssueTokenPairCall(p, req.Email, req.Password = "secret")
            /\ resp' = Response(IF rtRes'.err = "" THEN 200
                                ELSE IF rtRes'.err \in {ErrUnauthorized, ErrInvalidToken}
                                THEN 401
                                ELSE 500,
                                "", "passwordGrant")

(* the requests for the creation of an account, under every Authorization
   header *)
AccountArrivals ==
    {r \in Requests : r.method = "POST" /\ r.path = AccountsPath
                        /\ r.body = ValidAccountBody}

----------------------------------------------------------------------------
----------------------------------------------------------------------------
(* The rate limiter (middleware.go, RateLimit), on its own: one token bucket
   per client IP, a golang.org/x/time/rate limiter of the configured burst.
   Time is counted in refill periods: the limiter gains one token per period
   (1/perSecond seconds), up to the burst. *)

(* ttl (5 minutes) and cleanupTick (1 minute), scaled to the refill periods
   of a run *)
Ttl == 1
CleanupTick == 1

ClientIPs == {"10.0.0.1", "10.0.0.2"}
RateLimitMethods == {"GET", "OPTIONS"}
RequestIDs == {"req-1"}
MaxAdmits == 2 * MaxBurst

(* rate.NewLimiter(rate.Limit(perSecond), burst) at time t: a full bucket *)
NewBucket(t) == [tokens |-> rlBurst, at |-> t, last |-> t]

(* the tokens of bucket b at time t: one per period since the limiter's
   clock, at most the burst *)
TokensAt(b, t) ==
    IF b.tokens + (t - b.at) > rlBurst THEN rlBurst ELSE b.tokens + (t - b.at)

(* the sweep: if now.Sub(lastSweep) >= cleanupTick, the buckets idle for more
   than ttl are deleted *)
Sweep(bs, t) ==
    IF t - lastSweep >= CleanupTick
    THEN [ip \in {i \in DOMAIN bs : ~(t - bs[i].last > Ttl)} |-> bs[ip]]
    ELSE bs

(* what the handler answers itself (status 0: the request went to next) *)
RateLimitAnswer(method, ip, id, status, retryAfter, contentType, body) ==
    [method |-> method, ip |-> ip, request_id |-> id, status |-> status,
     retry_after |-> retryAfter, content_type |-> contentType, body |-> body]

NoRateLimitAnswer == RateLimitAnswer("", "", "", 0, "", "", "")

(* What the rate limiter leaves alone *)
RateLimitFrame ==
    UNCHANGED <<memVars, seedTotal, last, pgVars, authVars, httpVars, oauthVars, keyVars,
                verifyVars, bothVars, rbacVars, auditVars, migrateVars, mainVars, pageVars, userVars, revokeVars, xferVars, traceVars, streamVars>>

(* RateLimit(next, burst, perSecond): the handler is built, with no bucket
   yet and never swept (a burst of 0 or less would return next unwrapped) *)
NewRateLimit(burst) ==
    /\ RateLimitFrame
    /\ rlBurst = 0
    /\ burst > 0
    /\ rlBurst' = burst
    /\ UNCHANGED <<buckets, lastSweep, rlNow, admits, rlResp>>

(* the handler RateLimit returned, for a request of method from client ip
   with request id id *)
RateLimit(method, ip, id) ==
    /\ RateLimitFrame
    /\ rlBurst > 0
    /\ UNCHANGED <<rlNow, rlBurst>>
    /\ IF method = "OPTIONS"
       THEN /\ rlResp' = RateLimitAnswer(method, ip, id, 0, "", "", "")
            /\ UNCHANGED <<buckets, lastSweep, admits>>
       ELSE LET swept == Sweep(buckets, rlNow)
                entry == IF ip \in DOMAIN swept THEN swept[ip] ELSE NewBucket(rlNow)
                tokens == TokensAt(entry, rlNow)
                allow == tokens >= 1
                after == IF allow
                         THEN [tokens |-> tokens - 1, at |-> rlNow, last |-> rlNow]
                         ELSE [entry EXCEPT !.last = rlNow]
            IN /\ lastSweep' = IF rlNow - lastSweep >= CleanupTick THEN rlNow ELSE lastSweep
               /\ buckets' = [i \in (DOMAIN swept) \cup {ip} |->
                                 IF i = ip THEN after ELSE swept[i]]
               /\ IF allow
                  THEN /\ ip = "10.0.0.1" => Len(admits) < MaxAdmits
                       /\ admits' = IF ip = "10.0.0.1" THEN Append(admits, rlNow) ELSE admits
                       /\ rlResp' = RateLimitAnswer(method, ip, id, 0, "", "", "")
                  ELSE /\ admits' = admits
                       /\ rlResp' = RateLimitAnswer(method, ip, id, 429, "", "",
                                                    "rate limit exceeded")

(* a refill period passes *)
RateLimitTick ==
    /\ RateLimitFrame
    /\ UNCHANGED <<buckets, lastSweep, rlBurst, admits, rlResp>>
    /\ rlNow < MaxRlTime + Ttl
    /\ rlNow' = rlNow + 1

----------------------------------------------------------------------------
(* The RBAC tables (sql/002_rbac.sql) and the two stores that write them: the
   RBAC store of the API (Store.AssignRoleToUser, Store.SetRolePermissions)
   and the store of the auth service (roleStore.Assign,
   permissionStore.SetForRole).  The tables organizations, users, roles and
   permissions are fixed here; user_roles has the primary key (user_id,
   role_id), role_permissions the primary key (role_id, permission_id). *)

ErrInvalidInput == "invalid input"
ErrConflict == "resource conflict"
ErrForeignKey == "foreign key violation"                \* SQLSTATE 23503

Organizations == {"org-1", "org-2"}

(* users.organization_id and roles.organization_id, by id *)
UserOrg == [u \in {"user-1", "user-2"} |-> IF u = "user-1" THEN "org-1" ELSE "org-2"]
RoleOrg == [r \in {"role-1", "role-2"} |-> IF r = "role-1" THEN "org-1" ELSE "org-2"]

(* permissions.key *)
PermissionCatalog == {"ledger.transfer", "ledger.account.create"}

(* the ids and keys that callers name: the stored ones and one that does not
   exist *)
UserInputs == DOMAIN UserOrg \cup {"user-9"}
RoleInputs == DOMAIN RoleOrg \cup {"role-9"}
KeyInputs == {{}, {"ledger.transfer"}, {"ledger.transfer", "ledger.account.create"},
              {"no.such.permission"}, {"ledger.transfer", "no.such.permission"}}

Assignment(userID, roleID, organizationID) ==
    [user_id |-> userID, role_id |-> roleID, organization_id |-> organizationID]

RBACResult(op, err) == [op |-> op, err |-> err]

(* What a call on an RBAC store leaves alone *)
RBACFrame ==
    UNCHANGED <<memVars, seedTotal, last, pgVars, authVars, httpVars, oauthVars, keyVars,
                verifyVars, bothVars, rlVars, auditVars, migrateVars, mainVars, pageVars, userVars, revokeVars, xferVars, traceVars, streamVars>>

(* Store.AssignRoleToUser: one transaction that reads both organizations,
   compares them and inserts the row *)
AssignRoleToUser(userID, roleID) ==
    /\ RBACFrame
    /\ UNCHANGED role_permissions
    /\ IF userID \notin DOMAIN UserOrg \/ roleID \notin DOMAIN RoleOrg
       THEN /\ rbacRes' = RBACResult("AssignRoleToUser", ErrNotFound)
            /\ UNCHANGED user_roles
       ELSE IF UserOrg[userID] # RoleOrg[roleID]
       THEN /\ rbacRes' = RBACResult("AssignRoleToUser", ErrInvalidInput)
            /\ UNCHANGED user_roles
       ELSE IF \E a \in user_roles : a.user_id = userID /\ a.role_id = roleID
       THEN /\ rbacRes' = RBACResult("AssignRoleToUser", ErrConflict)
            /\ UNCHANGED user_roles
       ELSE /\ user_roles' = user_roles \cup {Assignment(userID, roleID, UserOrg[userID])}
            /\ rbacRes' = RBACResult("AssignRoleToUser", "")

(* roleStore.Assign: insert into user_roles ... on conflict do nothing; the
   foreign keys of the row must exist *)
Assign(assignment) ==
    /\ RBACFrame
    /\ UNCHANGED role_permissions
    /\ IF \/ assignment.user_id \notin DOMAIN UserOrg
          \/ assignment.role_id \notin DOMAIN RoleOrg
          \/ assignment.organization_id \notin Organizations
       THEN /\ rbacRes' = RBACResult("Assign", ErrForeignKey)
            /\ UNCHANGED user_roles
       ELSE /\ user_roles' =
                 IF \E a \in user_roles : /\ a.user_id = assignment.user_id
                                          /\ a.role_id = assignment.role_id
                 THEN user_roles
                 ELSE user_roles \cup {assignment}
            /\ rbacRes' = RBACResult("Assign", "")

(* Store.SetRolePermissions: one transaction; the role is looked up, its rows
   are deleted, each key is looked up in permissions and inserted; an error
   rolls everything back *)
SetRolePermissions(roleID, permissionKeys) ==
    /\ RBACFrame
    /\ UNCHANGED user_roles
    /\ IF roleID \notin DOMAIN RoleOrg
       THEN /\ rbacRes' = RBACResult("SetRolePermissions", ErrNotFound)
            /\ UNCHANGED role_permissions
       ELSE IF \E key \in permissionKeys : key \notin PermissionCatalog
       THEN /\ rbacRes' = RBACResult("SetRolePermissions", ErrNotFound)
            /\ UNCHANGED role_permissions
       ELSE /\ role_permissions' =
                 {rp \in role_permissions : rp[1] # roleID}
                     \cup {<<roleID, key>> : key \in permissionKeys}
            /\ rbacRes' = RBACResult("SetRolePermissions", "")

(* permissionStore.SetForRole: one transaction; the role's rows are deleted,
   and for each key `insert ... select $1, id from permissions where key=$2`
   inserts a row if the key exists and nothing otherwise; the role of an
   inserted row must exist *)
SetForRole(roleID, permKeys) ==
    /\ RBACFrame
    /\ UNCHANGED user_roles
    /\ IF roleID \notin DOMAIN RoleOrg /\ permKeys \cap PermissionCatalog # {}
       THEN /\ rbacRes' = RBACResult("SetForRole", ErrForeignKey)
            /\ UNCHANGED role_permissions
       ELSE /\ role_permissions' =
                 {rp \in role_permissions : rp[1] # roleID}
                     \cup {<<roleID, key>> : key \in permKeys \cap PermissionCatalog}
            /\ rbacRes' = RBACResult("SetForRole", "")

----------------------------------------------------------------------------
(* The migration manager (internal/migrate/manager.go).  A migration is a
   file <base>.up.sql somewhere under migrationsDir, with or without a sibling
   <base>.down.sql in the same directory.  Statement k of the up file of
   a migration puts <<base, k>> into effect; the down file undoes them; a file
   may hold a statement that the database rejects (failAt > 0).  rank is the
   place of the file name in the ascending order of names. *)

MigrationFile(base, dir, rank, failAt, down) ==
    [base |-> base, dir |-> dir, rank |-> rank, failAt |-> failAt, down |-> down]

(* the files that may be put under migrationsDir: two sound ones, one without
   a down file, one whose second statement fails, and one in a subdirectory *)
MigrationFiles ==
    { MigrationFile("0001_init", "", 1, 0, TRUE),
      MigrationFile("0002_rbac", "", 2, 0, FALSE),
      MigrationFile("0003_bad", "", 3, StatementsPerFile, TRUE),
      MigrationFile("0004_keys", "sub", 4, 0, TRUE) }

(* collectSQL(dir, ".up.sql"): every file under dir, subdirectories included,
   sorted by base name *)
RECURSIVE collectSQL(_)
collectSQL(files) ==
    IF files = {} THEN << >>
    ELSE LET first == CHOOSE f \in files : \A g \in files : f.rank <= g.rank
         IN <<first>> \o collectSQL(files \ {first})

(* the script of a file: the up or the down statements of a migration *)
Script(kind, file) ==
    [kind |-> kind, base |-> file.base,
     failAt |-> IF kind = "up" THEN file.failAt ELSE 0]

(* the database after the first n statements of a script *)
Run(script, db, n) ==
    IF script.kind = "up"
    THEN db \cup {<<script.base, k>> : k \in 1 .. n}
    ELSE db \ {<<script.base, StatementsPerFile + 1 - k>> : k \in 1 .. n}

(* Manager.exec: the statements of the file in one transaction; a failing
   statement returns the error and the deferred Rollback undoes the rest *)
execNoRollback(script, db) ==
    IF script.failAt = 0
    THEN [err |-> "", db |-> Run(script, db, StatementsPerFile)]
    ELSE [err |-> "statement failed", db |-> Run(script, db, script.failAt - 1)]
exec(script, db) ==
    IF script.failAt = 0
    THEN [err |-> "", db |-> Run(script, db, StatementsPerFile)]
    ELSE [err |-> "statement failed", db |-> db]

(* Manager.listExecuted: the names in the table *)
listExecutedNone(table) == {}
listExecuted(table) == {table[i] : i \in DOMAIN table}

(* what a call on the manager did: the error, the file the error names, and
   the migrations it executed, in order *)
MigrationResult(op, err, file, ran) == [op |-> op, err |-> err, file |-> file, ran |-> ran]

(* the loop of Manager.Up over the collected files: st is the database, the
   table and the migrations run so far; the insert of the bookkeeping row is a
   statement of its own after the commit of exec, and it fails for the
   migration called broken (the connection is lost, the process is stopped) *)
RECURSIVE UpLoop(_, _, _, _)
UpLoop(files, executed, st, broken) ==
    IF files = << >> THEN [err |-> "", file |-> ""] @@ st
    ELSE LET mig == Head(files)
         IN IF mig.base \in executed THEN UpLoop(Tail(files), executed, st, broken)
            ELSE LET done == exec(Script("up", mig), st.db)
                 IN IF done.err # ""
                    THEN [err |-> "apply migration", file |-> mig.base, db |-> done.db] @@ st
                    ELSE IF mig.base = broken
                    THEN [err |-> "insert record", file |-> "", db |-> done.db,
                          table |-> st.table, ran |-> Append(st.ran, mig.base)]
                    ELSE UpLoop(Tail(files), executed,
                                [db |-> done.db,
                                 table |-> Append(st.table, mig.base),
                                 ran |-> Append(st.ran, mig.base)], broken)

(* What a call on the migration manager leaves alone *)
MigrateFrame ==
    UNCHANGED <<memVars, seedTotal, last, pgVars, authVars, httpVars, oauthVars, keyVars,
                verifyVars, bothVars, rlVars, rbacVars, auditVars, mainVars, pageVars, userVars, revokeVars, xferVars, traceVars, streamVars>>

(* a migration file is written under migrationsDir *)
AddFile(file) ==
    /\ MigrateFrame
    /\ file \notin disk
    /\ disk' = disk \cup {file}
    /\ migRes' = MigrationResult("", "", "", << >>)
    /\ UNCHANGED <<dbSchema, schema_migrations>>

(* Manager.Up, with the insert of the row of broken failing *)
UpCall(broken) ==
    /\ MigrateFrame
    /\ LET end == UpLoop(collectSQL(disk), listExecuted(schema_migrations),
                         [db |-> dbSchema, table |-> schema_migrations, ran |-> << >>],
                         broken)
       IN /\ dbSchema' = end.db
          /\ schema_migrations' = end.table
          /\ migRes' = MigrationResult("Up", end.err, end.file, end.ran)
    /\ UNCHANGED disk

(* Manager.Up with every statement on the bookkeeping table succeeding *)
Up == UpCall("")

(* Manager.Up during which the insert of a bookkeeping row fails *)
UpInsertFails(file) ==
    /\ file \in disk
    /\ UpCall(file.base)
    /\ migRes'.err = "insert record"

(* Manager.Down: the last name of the history, its down file looked for at
   filepath.Join(migrationsDir, name), executed, and the row deleted *)
Down ==
    /\ MigrateFrame
    /\ UNCHANGED disk
    /\ IF schema_migrations = << >>
       THEN /\ migRes' = MigrationResult("Down", "no migrations applied", "", << >>)
            /\ UNCHANGED <<dbSchema, schema_migrations>>
       ELSE LET name == schema_migrations[Len(schema_migrations)]
                found == {f \in disk : f.base = name /\ f.dir = "" /\ f.down}
            IN IF found = {}
               THEN /\ migRes' = MigrationResult("Down", "missing down migration", name, << >>)
                    /\ UNCHANGED <<dbSchema, schema_migrations>>
               ELSE LET done == exec(Script("down", CHOOSE f \in found : TRUE), dbSchema)
                    IN IF done.err # ""
                       THEN /\ migRes' = MigrationResult("Down", "rollback migration", name,
                                                         << >>)
                            /\ dbSchema' = done.db
                            /\ UNCHANGED schema_migrations
                       ELSE /\ dbSchema' = done.db
                            /\ schema_migrations' =
                                 SubSeq(schema_migrations, 1, Len(schema_migrations) - 1)
                            /\ migRes' = MigrationResult("Down", "", "", <<name>>)

----------------------------------------------------------------------------
(* The API process (cmd/api/main.go): main starts the HTTP and the gRPC
   server, waits for SIGINT or SIGTERM and shuts down.  Requests arrive and
   finish on their own goroutines while main runs. *)

(* What a step of the process leaves alone *)
MainFrame ==
    UNCHANGED <<memVars, seedTotal, last, pgVars, authVars, httpVars, oauthVars, keyVars,
                verifyVars, bothVars, rlVars, rbacVars, auditVars, migrateVars, pageVars, userVars, revokeVars, xferVars, traceVars, streamVars>>

(* a connection is accepted and its request is being served *)
ServeRequest(server) ==
    /\ MainFrame
    /\ mainPc # "stopped"
    /\ server \in listening
    /\ accepted < MaxRequests
    /\ accepted' = accepted + 1
    /\ IF server = "http"
       THEN srvActive' = srvActive + 1 /\ UNCHANGED grpcActive
       ELSE grpcActive' = grpcActive + 1 /\ UNCHANGED srvActive
    /\ UNCHANGED <<mainPc, listening, ctxDone, closed>>

(* a handler returns *)
FinishRequest(server) ==
    /\ MainFrame
    /\ mainPc # "stopped"
    /\ IF server = "http"
       THEN srvActive > 0 /\ srvActive' = srvActive - 1 /\ UNCHANGED grpcActive
       ELSE grpcActive > 0 /\ grpcActive' = grpcActive - 1 /\ UNCHANGED srvActive
    /\ UNCHANGED <<mainPc, listening, ctxDone, closed, accepted>>

(* <-stop: the signal arrives; main makes the context with the 10-second
   timeout and calls srv.Shutdown, which closes the listeners first *)
Signal ==
    /\ MainFrame
    /\ mainPc = "serving"
    /\ mainPc' = "srv.Shutdown"
    /\ listening' = listening \ {"http"}
    /\ UNCHANGED <<srvActive, grpcActive, ctxDone, closed, accepted>>

(* the timeout of the shutdown context passes *)
ContextTimeout ==
    /\ MainFrame
    /\ mainPc = "srv.Shutdown"
    /\ ~ctxDone
    /\ ctxDone' = TRUE
    /\ UNCHANGED <<mainPc, srvActive, grpcActive, listening, closed, accepted>>

(* srv.Shutdown(ctx) returns when no connection is active or when ctx is
   done; main drops its error *)
ShutdownReturnsAtOnce == TRUE
ShutdownReturns == srvActive = 0 \/ ctxDone

(* srv.Shutdown returns and main calls grpcSrv.GracefulStop, which stops
   accepting *)
Shutdown ==
    /\ MainFrame
    /\ mainPc = "srv.Shutdown"
    /\ ShutdownReturns
    /\ mainPc' = "grpcSrv.GracefulStop"
    /\ listening' = listening \ {"grpc"}
    /\ closed' = Append(closed, "srv")
    /\ UNCHANGED <<srvActive, grpcActive, ctxDone, accepted>>

(* grpcSrv.GracefulStop returns once every call has finished; main closes the
   listener, stops the demo stream and closes the remote client *)
GracefulStop ==
    /\ MainFrame
    /\ mainPc = "grpcSrv.GracefulStop"
    /\ grpcActive = 0
    /\ mainPc' = "db.Close"
    /\ closed' = closed \o <<"grpcSrv", "lis", "stopDemo", "remoteClient">>
    /\ UNCHANGED <<srvActive, grpcActive, listening, ctxDone, accepted>>

(* storeClose() or db.Close(), and main returns: the process ends *)
CloseStore ==
    /\ MainFrame
    /\ mainPc = "db.Close"
    /\ mainPc' = "stopped"
    /\ closed' = Append(closed, "db")
    /\ UNCHANGED <<srvActive, grpcActive, listening, ctxDone, accepted>>

----------------------------------------------------------------------------
(* OAuth authorization code with PKCE: POST /v1/auth/oauth/authorize and
   POST /v1/auth/oauth/token.  The two handlers are the code's; the service
   methods behind them, IssueAuthCode and ExchangeAuthCode, are modelled after
   their description and after the statements the tests expect of them: a
   query that loads the row, then an update that sets consumed_at. *)

CodeTTL == 1
DemoClient == "demo-client"
oauthClients ==
    [c \in {DemoClient} |->
        [secret |-> "demo-secret", redirect_uri |-> "http://localhost/callback"]]

(* base64url(sha256(verifier)) *)
S256(verifier) == "sha256:" \o verifier

(* the PKCE check of the verifier against the stored challenge *)
verifyChallenge(method, challenge, verifier) ==
    IF method = "S256" THEN S256(verifier) = challenge
    ELSE IF method = "PLAIN" THEN verifier = challenge
    ELSE FALSE

AuthCodeRequest(client, redirect, challenge, method) ==
    [ClientID |-> client, RedirectURI |-> redirect,
     CodeChallenge |-> challenge, CodeChallengeMethod |-> method]

(* the authorize requests: the one of the tests, the same with a PLAIN
   challenge, and three that must be refused *)
AuthCodeRequests ==
    {AuthCodeRequest(DemoClient, "http://localhost/callback", S256("v1"), "S256"),
     AuthCodeRequest(DemoClient, "http://localhost/callback", "v1", "PLAIN"),
     AuthCodeRequest(DemoClient, "http://localhost/callback", "v1", "S512"),
     AuthCodeRequest(DemoClient, "http://evil/callback", "v1", "PLAIN"),
     AuthCodeRequest("no-client", "http://localhost/callback", "v1", "PLAIN")}

AuthCodeExchangeRequest(client, secret, code, verifier) ==
    [ClientID |-> client, ClientSecret |-> secret, Code |-> code,
     CodeVerifier |-> verifier]

(* the exchange requests: the right one for every code, and for code 1 a
   wrong client, a wrong secret and a wrong verifier; code 0 is unknown *)
AuthCodeExchangeRequests ==
    {AuthCodeExchangeRequest(DemoClient, "demo-secret", c, "v1") : c \in 0 .. MaxCodes}
      \cup {AuthCodeExchangeRequest("no-client", "demo-secret", 1, "v1"),
            AuthCodeExchangeRequest(DemoClient, "wrong", 1, "v1"),
            AuthCodeExchangeRequest(DemoClient, "demo-secret", 1, "v2")}

NoRequest == AuthCodeExchangeRequest("", "", 0, "")
NoExchange == [pc |-> "idle", req |-> NoRequest]
NoAnswer == [status |-> 0, token |-> "", req |-> NoRequest]

(* What a call on the OAuth endpoints leaves alone *)
OAuthFrame == UNCHANGED <<memVars, seedTotal, last, pgVars, authVars, httpVars, keyVars, verifyVars, bothVars, rlVars, rbacVars, auditVars, migrateVars, mainVars, pageVars, userVars, revokeVars, xferVars, traceVars, streamVars>>

(* Service.IssueAuthCode behind handleOAuthAuthorize: the client exists, the
   redirect URI is the stored one, the method is S256 or PLAIN; the row is
   inserted with its expiry and consumed_at null (<< >>).  A refusal is
   answered 400 and changes nothing. *)
handleOAuthAuthorize(req) ==
    /\ OAuthFrame
    /\ UNCHANGED <<ex, exRes>>
    /\ IF \/ req.ClientID \notin DOMAIN oauthClients
          \/ req.RedirectURI # oauthClients[req.ClientID].redirect_uri
          \/ req.CodeChallengeMethod \notin {"S256", "PLAIN"}
       THEN UNCHANGED authCodes
       ELSE LET code == Cardinality(DOMAIN authCodes) + 1
            IN /\ code <= MaxCodes
               /\ authCodes' =
                    [c \in (DOMAIN authCodes) \cup {code} |->
                        IF c = code
                        THEN [client_id |-> req.ClientID,
                              code_challenge |-> req.CodeChallenge,
                              code_challenge_method |-> req.CodeChallengeMethod,
                              expires_at |-> now + CodeTTL,
                              consumed_at |-> << >>]
                        ELSE authCodes[c]]

(* update oauth_auth_codes set consumed_at = now where code = ... *)
MarkConsumedNoop(codes, code, t) == codes
MarkConsumed(codes, code, t) == [codes EXCEPT ![code].consumed_at = <<t>>]

(* handleOAuthToken, first statement of ExchangeAuthCode: the row is loaded by
   (code, client_id) with the client's secret and checked; every failure is
   answered 400 *)
ExchangeLoad(p, req) ==
    /\ OAuthFrame
    /\ ex[p].pc = "idle"
    /\ UNCHANGED authCodes
    /\ LET found == /\ req.Code \in DOMAIN authCodes
                    /\ authCodes[req.Code].client_id = req.ClientID
           row == authCodes[req.Code]
           ok == /\ found
                 /\ row.consumed_at = << >>
                 /\ now <= row.expires_at
                 /\ req.ClientSecret = oauthClients[req.ClientID].secret
                 /\ verifyChallenge(row.code_challenge_method, row.code_challenge,
                                    req.CodeVerifier)
       IN IF ok
          THEN /\ ex' = [ex EXCEPT ![p] = [pc |-> "consume", req |-> req]]
               /\ UNCHANGED exRes
          ELSE /\ UNCHANGED ex
               /\ exRes' = [status |-> 400, token |-> "", req |-> req]

(* second statement of ExchangeAuthCode and the answer: consumed_at is set,
   the access token is signed and returned with 200 *)
ExchangeConsume(p) ==
    /\ OAuthFrame
    /\ ex[p].pc = "consume"
    /\ authCodes' = MarkConsumed(authCodes, ex[p].req.Code, now)
    /\ ex' = [ex EXCEPT ![p] = NoExchange]
    /\ exRes' = [status |-> 200, token |-> "access-token", req |-> ex[p].req]

(* time passes while codes are outstanding *)
OAuthTick ==
    /\ UNCHANGED <<memVars, seedTotal, last, pgVars, httpVars, oauthVars, keyVars, verifyVars, bothVars, rlVars, rbacVars, auditVars, migrateVars, mainVars, pageVars, userVars, revokeVars, xferVars, traceVars, streamVars>>
    /\ UNCHANGED <<refreshTokens, rt, rtRes, rotated>>
    /\ now <= CodeTTL
    /\ now' = now + 1

----------------------------------------------------------------------------
(* The signing-key manager: EnsureActive, run at service start and before a
   token is issued, by several processes over one auth_keys table.  Its code
   is modelled after its description and after the statements the tests
   expect of it, in their order: the select of the active key, then in one
   transaction the update that retires the active rows and the insert of the
   new row.  The table has no constraint on the number of active rows. *)

KeyTTL == 2
RotateWindow == 1

NoKeyTx == [pc |-> "idle", active |-> 0, retired |-> {}]

ActiveKeys(keys) == {k \in DOMAIN keys : keys[k].status = "active"}

(* the key expires within the rotate window (0 is no key) *)
needsRotation(keys, k, t) ==
    IF k \notin DOMAIN keys THEN TRUE ELSE t + RotateWindow >= keys[k].expires_at

(* rows another process's open transaction has updated and still locks *)
KeyLockedByOther(p) ==
    UNION {keyTx[q].retired : q \in Procs \ {p}}

(* What the key manager leaves alone *)
KeyFrame == UNCHANGED <<memVars, seedTotal, last, pgVars, httpVars, oauthVars, verifyVars, bothVars, rlVars, rbacVars, auditVars, migrateVars, mainVars, pageVars, userVars, revokeVars, xferVars, traceVars, streamVars>>

(* EnsureActive up to the transaction: the cached key is kept when it is not
   about to expire; otherwise the active row is selected, and cached when it
   is not about to expire; otherwise a rotation begins *)
EnsureActiveSelect(p) ==
    /\ KeyFrame
    /\ UNCHANGED <<authVars, authKeys>>
    /\ keyTx[p].pc = "idle"
    /\ needsRotation(authKeys, keyTx[p].active, now)
    /\ \/ \E k \in ActiveKeys(authKeys) :
             /\ ~needsRotation(authKeys, k, now)
             /\ keyTx' = [keyTx EXCEPT ![p].active = k]
       \/ /\ \A k \in ActiveKeys(authKeys) : needsRotation(authKeys, k, now)
          /\ Cardinality(DOMAIN authKeys)
               + Cardinality({q \in Procs : keyTx[q].pc # "idle"}) < MaxKeys
          /\ keyTx' = [keyTx EXCEPT ![p].pc = "update"]

(* begin; update auth_keys set status = 'retired' where status = 'active':
   the statement sees the rows committed when it runs, waits for the rows
   another transaction has updated, and keeps its rows locked *)
EnsureActiveRetire(p) ==
    /\ KeyFrame
    /\ UNCHANGED <<authVars, authKeys>>
    /\ keyTx[p].pc = "update"
    /\ ActiveKeys(authKeys) \cap KeyLockedByOther(p) = {}
    /\ keyTx' = [keyTx EXCEPT ![p].pc = "insert",
                              ![p].retired = ActiveKeys(authKeys)]

(* the rows a committed rotation has retired *)
Retire(keys, retired) ==
    [k \in DOMAIN keys |->
        IF k \in retired THEN [keys[k] EXCEPT !.status = "retired"] ELSE keys[k]]

(* insert into auth_keys ... 'active'; commit: the rows the transaction
   retired and its new row become visible, and the new key is cached *)
EnsureActiveCommit(p) ==
    /\ KeyFrame
    /\ UNCHANGED authVars
    /\ keyTx[p].pc = "insert"
    /\ LET id == Cardinality(DOMAIN authKeys) + 1
           kept == Retire(authKeys, keyTx[p].retired)
       IN /\ authKeys' =
               [k \in (DOMAIN authKeys) \cup {id} |->
                   IF k = id
                   THEN [status |-> "active", expires_at |-> now + KeyTTL]
                   ELSE kept[k]]
          /\ keyTx' = [keyTx EXCEPT ![p] =
                          [pc |-> "idle", active |-> id, retired |-> {}]]

(* time passes while keys age *)
KeyTick ==
    /\ KeyFrame
    /\ UNCHANGED <<keyVars, refreshTokens, rt, rtRes, rotated>>
    /\ now < MaxKeys
    /\ now' = now + 1

----------------------------------------------------------------------------
(* Access-token validation: Service.AuthenticateToken and verifyAccessToken,
   for a service configured with RS256 keys and an issuer, with or without
   the legacy HS256 secret *)

Issuer == "qazna"
Skew == 1               \* the 5 seconds of clock skew, in the model's time unit

(* strings.EqualFold on the issuers of the model *)
Fold(str) == IF str = "QAZNA" THEN "qazna" ELSE str
EqualFold(a, b) == Fold(a) = Fold(b)

(* A JWT as parseJWT and extractClaims read it: the alg of its header, the key
   its signature verifies under ("rsa": the service's key pair, "hmac": the
   token secret, "bad": neither), and its claims; an absent iss or sub is "",
   an absent exp or iat is 0 *)
AccessToken(alg, sig, sub, iss, typ, exp, iat) ==
    [alg |-> alg, sig |-> sig, sub |-> sub, iss |-> iss, token_type |-> typ,
     exp |-> exp, iat |-> iat]

(* the tokens presented: RS256 tokens signed by the service with every
   combination of claims, and tokens of every alg and signature with the
   claims of a token the service issued at time 1 *)
AccessTokens ==
    {AccessToken("RS256", "rsa", sub, iss, typ, exp, iat) :
        sub \in {"", "user-4"}, iss \in {"", "qazna", "QAZNA", "evil"},
        typ \in {"access", "refresh"}, exp \in 0 .. MaxTime, iat \in 0 .. MaxTime}
      \cup {AccessToken(alg, sig, "user-4", Issuer, "access", MaxTime, 1) :
               alg \in {"RS256", "HS256", "none"}, sig \in {"rsa", "hmac", "bad"}}

(* the signature check of verifyAccessToken, by alg *)
signatureVerifies(tok, tokenSecret) ==
    CASE tok.alg = "RS256" -> tok.sig = "rsa"
      [] tok.alg = "HS256" -> tokenSecret /\ tok.sig = "hmac"
      [] OTHER -> FALSE

(* verifyAccessToken at time t: "" when the token is accepted *)
verifyAccessToken(tok, tokenSecret, t) ==
    IF ~signatureVerifies(tok, tokenSecret) THEN ErrInvalidToken
    ELSE IF tok.sub = "" THEN ErrInvalidToken
    ELSE IF Issuer # "" /\ tok.iss # "" /\ ~EqualFold(tok.iss, Issuer) THEN ErrInvalidToken
    ELSE IF tok.token_type # "access" THEN ErrInvalidToken
    ELSE IF tok.exp > 0 /\ t > tok.exp THEN ErrInvalidToken
    ELSE ""

NoVerification ==
    [token |-> AccessToken("none", "bad", "", "", "", 0, 0), at |-> 0, err |-> "none"]

(* Service.AuthenticateToken on a token whose subject, if any, is a user of
   the store *)
AuthenticateToken(tok, tokenSecret, t) ==
    /\ UNCHANGED <<memVars, seedTotal, last, pgVars, authVars, httpVars, oauthVars, keyVars, bothVars, rlVars, rbacVars, auditVars, migrateVars, mainVars, pageVars, userVars, revokeVars, xferVars, traceVars, streamVars>>
    /\ verified' = [token |-> tok, at |-> t,
                    err |-> verifyAccessToken(tok, tokenSecret, t)]

vars == <<accts, seq, txs, idem, seedTotal, last, pgLog, seqgen, conn, started,
          refreshTokens, now, rt, rtRes, rotated, rolePerms, resp,
          authCodes, ex, exRes, authKeys, keyTx,
          verified,
          pgLast,
          buckets, lastSweep, rlNow, rlBurst, admits, rlResp,
          user_roles, role_permissions, rbacRes,
          audited, auditFailures, responseRid,
          disk, dbSchema, schema_migrations, migRes,
          mainPc, srvActive, grpcActive, listening, ctxDone, closed, accepted,
          cursor, received,
          userStatus,
          assignments, issued,
          xfer, wallClock, createdAt, auditLog,
          passed,
          subs, nextID, mu, chans, subCtx, pub, published, panicked>>

(* NewInMemory *)
InitMem ==
    /\ accts = << >>
    /\ seq = 0
    /\ txs = << >>
    /\ idem = << >>

(* pg.Open on a migrated, empty database *)
InitPg ==
    /\ pgLog = << >>
    /\ seqgen = 0
    /\ conn = [c \in Conns |-> IdleConn]
    /\ started = 0

(* auth.NewService over an empty refresh-token store *)
InitAuth ==
    /\ refreshTokens = << >>
    /\ now = 0
    /\ rt = [p \in Procs |-> IdleCall]
    /\ rtRes = NoPair
    /\ rotated = {}

(* httpapi.New with an auth service and an RBAC service over a seeded store;
   no request served yet *)
InitHTTP ==
    /\ rolePerms = [r \in RoleIDs |->
                      IF r = "role-1" THEN {PermissionManagePermissions} ELSE {}]
    /\ resp = NoResponse

(* auth service over an empty oauth_auth_codes table *)
InitOAuth ==
    /\ authCodes = << >>
    /\ ex = [p \in Procs |-> NoExchange]
    /\ exRes = NoAnswer

(* an empty auth_keys table, no process started *)
InitKeys ==
    /\ authKeys = << >>
    /\ keyTx = [p \in Procs |-> NoKeyTx]

(* no token verified yet *)
InitVerify == verified = NoVerification

(* nothing called yet on the PostgreSQL backend *)
InitBoth == pgLast = Result("", "", NoTx, 0)

(* Before RateLimit is called: no handler (burst 0), no bucket, never swept
   (the zero time is long ago) *)
InitRateLimit ==
    /\ buckets = << >>
    /\ lastSweep = 0 - CleanupTick
    /\ rlNow = 0
    /\ rlBurst = 0
    /\ admits = << >>
    /\ rlResp = NoRateLimitAnswer

(* the RBAC tables after the migration: no assignment, no role permission *)
InitRBAC ==
    /\ user_roles = {}
    /\ role_permissions = {}
    /\ rbacRes = RBACResult("", "")

(* nothing served yet: nothing logged *)
InitAudit ==
    /\ audited = << >>
    /\ auditFailures = << >>
    /\ responseRid = ""

(* an empty migrations directory and a fresh database *)
InitMigrate ==
    /\ disk = {}
    /\ dbSchema = {}
    /\ schema_migrations = << >>
    /\ migRes = MigrationResult("", "", "", << >>)

(* main after both servers have been started *)
InitMain ==
    /\ mainPc = "serving"
    /\ srvActive = 0
    /\ grpcActive = 0
    /\ listening = {"http", "grpc"}
    /\ ctxDone = FALSE
    /\ closed = << >>
    /\ accepted = 0

(* the paging client before its first call *)
InitPage ==
    /\ cursor = 0
    /\ received = << >>

(* every user is active *)
InitUsers == userStatus = [u \in AuthUsers |-> "active"]

(* the assignments the API starts with; no token issued yet *)
InitAssignments ==
    /\ assignments = Assignments
    /\ issued = {}

(* no transfer request is being served *)
InitTransfers ==
    /\ xfer = [p \in Procs |-> IdleTransfer]
    /\ wallClock = 0
    /\ createdAt = << >>
    /\ auditLog = << >>

(* no request has been served *)
InitTrace == passed = << >>

(* stream.New: no subscriber *)
InitStream ==
    /\ subs = {}
    /\ nextID = 0
    /\ mu = [w |-> NoWriter, r |-> {}]
    /\ chans = [id \in SubIDs |-> NoChan]
    /\ subCtx = [id \in SubIDs |-> "none"]
    /\ pub = [p \in Procs |-> IdlePublish]
    /\ published = 0
    /\ panicked = FALSE

Init ==
    /\ InitMem
    /\ InitPg
    /\ InitAuth
    /\ InitHTTP
    /\ InitOAuth
    /\ InitKeys
    /\ InitVerify
    /\ InitBoth
    /\ InitRateLimit
    /\ InitRBAC
    /\ InitAudit
    /\ InitMigrate
    /\ InitMain
    /\ InitPage
    /\ InitUsers
    /\ InitAssignments
    /\ InitTransfers
    /\ InitTrace
    /\ InitStream
    /\ seedTotal = [c \in RealCurrencies |-> 0]
    /\ last = Result("", "", NoTx, 0)

----------------------------------------------------------------------------
(* Properties of the in-memory backend, checked under SpecMem *)

(* the sum of all balances in currency c *)
MemTotal(c) == SumOver(DOMAIN accts, LAMBDA a : Bal(accts[a], c), 0)

(* C1: on the in-memory backend, after any sequence of CreateAccount and
   Transfer calls, for every currency the sum of all account balances equals
   the sum of the seed balances of that currency. *)
C1_MoneyConservation == \A c \in RealCurrencies : MemTotal(c) = seedTotal[c]

(* C2: in every reachable ledger state, on either backend, every account
   balance is greater than or equal to zero. *)
C2_NonNegative ==
    /\ \A a \in DOMAIN accts : \A c \in DOMAIN accts[a] : accts[a][c] >= 0
    /\ \A a \in PgAccounts(Len(pgLog)) : \A c \in RealCurrencies :
          PgBalance(Len(pgLog), a, c) >= 0

(* a call that leaves the ledger as it was *)
MemUnchanged == UNCHANGED <<accts, seq, txs, idem>>

(* C3, as the claim states it: a Transfer call that repeats the non-empty
   idempotency key of an earlier successful call, with the same or a different
   payload, returns the first call's record and changes no balance and no
   sequence. *)
C3_ReplayAnyPayload ==
    [][\A r \in TransferInputs :
         (r[5] # "" /\ r[5] \in DOMAIN idem /\ Transfer(r[1], r[2], r[3], r[4], r[5]))
             => (last'.err = "" /\ last'.tx = idem[r[5]] /\ MemUnchanged)]_vars

(* C3, amended: such a call changes no balance and no sequence whatever its
   payload is, and it returns the first call's record when its payload passes
   validation (positive amount, non-empty currency); validation runs before
   the idempotency lookup, so an invalid payload gets the validation error. *)
C3_ReplayValidPayload ==
    [][\A r \in TransferInputs :
         (r[5] # "" /\ r[5] \in DOMAIN idem /\ Transfer(r[1], r[2], r[3], r[4], r[5]))
             => /\ MemUnchanged
                /\ (IsPositive(r[4]) /\ r[3] # "")
                      => (last'.err = "" /\ last'.tx = idem[r[5]])
                /\ ~IsPositive(r[4]) => last'.err = ErrInvalidAmount
                /\ (IsPositive(r[4]) /\ r[3] = "") => last'.err = ErrInvalidCurrency]_vars

(* a replay has returned a record that is not the newest transaction *)
C3_Witness ==
    /\ last.op = "Transfer" /\ last.err = ""
    /\ last.tx.IdempotencyKey # ""
    /\ last.tx.Sequence < seq
    /\ Len(txs) = seq

(* C6, as the claim states it: a Transfer whose source account holds less than
   the requested amount fails with InsufficientFunds and leaves balances, the
   transaction list, the sequence counter and the idempotency records as they
   were. *)
C6_InsufficientAlways ==
    [][\A r \in TransferInputs :
         (/\ r[1] \in DOMAIN accts
          /\ Bal(accts[r[1]], r[3]) < r[4]
          /\ Transfer(r[1], r[2], r[3], r[4], r[5]))
             => (last'.err = ErrInsufficientFunds /\ MemUnchanged)]_vars

(* C6, amended: such a Transfer leaves the ledger as it was; it fails with
   InsufficientFunds when the currency is non-empty, the idempotency key is
   not already recorded and the destination account exists, and otherwise it
   returns what the earlier check returns. *)
C6_InsufficientFunds ==
    [][\A r \in TransferInputs :
         (/\ r[1] \in DOMAIN accts
          /\ Bal(accts[r[1]], r[3]) < r[4]
          /\ Transfer(r[1], r[2], r[3], r[4], r[5]))
             => /\ MemUnchanged
                /\ (IsPositive(r[4]) /\ r[3] # "" /\ ~(r[5] # "" /\ r[5] \in DOMAIN idem)
                       /\ r[2] \in DOMAIN accts)
                      => last'.err = ErrInsufficientFunds]_vars

(* a Transfer has failed for lack of funds *)
C6_Witness == last.op = "Transfer" /\ last.err = ErrInsufficientFunds

----------------------------------------------------------------------------
(* Properties of the PostgreSQL backend, checked under SpecPg *)

(* connection c's call returns in this step *)
Returns(c) == conn[c].pc # "idle" /\ conn'[c].pc = "idle"

(* connection c's call returns in this step because of what the statement it
   is at finds in the database, and not only because of a cancellation *)
ReturnsFromStatement(c) ==
    /\ Returns(c)
    /\ \/ PgLockAccount(c) \/ PgEnsureBalanceRows(c) \/ PgCheckFunds(c)
       \/ PgCredit(c) \/ PgInsertTransaction(c) \/ PgCommit(c)

(* the record the call on connection c returns in this step: the row its
   Commit adds, or no record when it returns an error *)
ReturnedTx(c) ==
    IF conn[c].pc = "commit" /\ Len(pgLog') = Len(pgLog) + 1
    THEN pgLog'[Len(pgLog')].tx
    ELSE NoTx

(* the transfers with idempotency key key that committed while the call on
   connection c was under way *)
ConcurrentWithKey(c) ==
    {pgLog[i].tx : i \in {j \in (conn[c].snap + 1) .. Len(pgLog) :
                             /\ pgLog[j].kind = "transfer"
                             /\ pgLog[j].tx.IdempotencyKey = conn[c].key}}

(* C4: on the SQL backend, of two concurrent Transfer calls with the same
   non-empty idempotency key only one changes the balances (the key has one
   transactions row), and both calls return the same transaction record: the
   call that is still under way when the other commits (and whose accounts
   existed when it began) returns the record the other committed. *)
C4_ConcurrentSameKey ==
    [][/\ \A t1, t2 \in PgTransactions(Len(pgLog)) :
             (t1.IdempotencyKey # "" /\ t1.IdempotencyKey = t2.IdempotencyKey) => t1 = t2
       /\ \A c \in Conns :
             (/\ conn[c].key # ""
              /\ {conn[c].from, conn[c].to} \subseteq PgAccounts(conn[c].snap)
              /\ ConcurrentWithKey(c) # {}
              /\ ReturnsFromStatement(c))
                 => ReturnedTx(c) \in ConcurrentWithKey(c)]_vars

(* the transactions rows in commit order *)
Committed == SelectSeq(pgLog, LAMBDA e : e.kind = "transfer")

(* C5: every committed transfer has a sequence number that is unique and
   strictly greater than that of every transfer committed before it on the
   same backend instance. *)
C5_SequenceFollowsCommitOrder ==
    /\ \A i, j \in 1 .. Len(txs) : i < j => txs[i].Sequence < txs[j].Sequence
    /\ \A i, j \in 1 .. Len(Committed) :
          i < j => Committed[i].tx.Sequence < Committed[j].tx.Sequence

(* commit number n is a complete transfer of connection c's call: the debit,
   the credit and the transactions row, and nothing else *)
CompleteTransfer(c, e) ==
    LET k == conn[c]
    IN /\ e.kind = "transfer"
       /\ e.currency = k.currency
       /\ e.tx = [ID |-> k.seq, FromAccountID |-> k.from, ToAccountID |-> k.to,
                  Currency |-> k.currency, Amount |-> k.amount,
                  IdempotencyKey |-> k.key, Sequence |-> k.seq]
       /\ \A j \in 1 .. Len(e.writes) : e.writes[j][1] \in {k.from, k.to}
       /\ WritesTo(e.writes, k.from) = (IF k.from = k.to THEN 0 ELSE -k.amount)
       /\ WritesTo(e.writes, k.to) = (IF k.from = k.to THEN 0 ELSE k.amount)

(* C7: on the SQL backend a transfer, whether it runs to its end or its context
   is cancelled at any statement, either commits completely (debit, credit and
   transactions row together) or leaves the tables as they were: every step
   leaves the tables alone, or is the commit of a complete transfer, or is the
   creation of an account; and a cancelled call leaves the tables alone. *)
C7_AllOrNothing ==
    [][/\ \/ pgLog' = pgLog
          \/ \E c \in Conns :
                /\ conn[c].pc = "commit" /\ Returns(c)
                /\ Len(pgLog') = Len(pgLog) + 1
                /\ SubSeq(pgLog', 1, Len(pgLog)) = pgLog
                /\ CompleteTransfer(c, pgLog'[Len(pgLog')])
          \/ /\ conn' = conn
             /\ Len(pgLog') = Len(pgLog) + 1
             /\ SubSeq(pgLog', 1, Len(pgLog)) = pgLog
             /\ pgLog'[Len(pgLog')].kind = "account"
       /\ \A c \in Conns : PgCancel(c) => pgLog' = pgLog]_vars

(* a transfer was rolled back after its debit, its credit and its transactions
   row were written: a sequence number is used up that no row has, nothing is
   under way, and no committed key could have rejected the row *)
C7_Witness ==
    /\ InFlight = {}
    /\ seqgen > Cardinality(PgTransactions(Len(pgLog)))
    /\ \A t \in PgTransactions(Len(pgLog)) : t.IdempotencyKey = ""
    /\ PgTransactions(Len(pgLog)) # {}

----------------------------------------------------------------------------
(* Properties of the two backends side by side, checked under SpecBoth *)

(* C16: after every sequence of CreateAccount, GetAccount, GetBalance, Transfer
   and ListTransactions calls made one at a time on both backends, the call
   made last has returned the same result and the same error on both. *)
C16_SameResults == last = pgLast

(* the balances rows of PostgreSQL, as a function of account and currency *)
PgBalances ==
    [id \in PgAccounts(Len(pgLog)), c \in RealCurrencies |-> PgBalance(Len(pgLog), id, c)]

(* the in-memory backend accepted the call and recorded a new transaction
   with a new sequence number, without changing a balance *)
MemRecordedOnly ==
    /\ last'.err = ""
    /\ accts' = accts
    /\ seq' = seq + 1
    /\ txs' = Append(txs, last'.tx)
    /\ last'.tx.Sequence = seq'

(* the same of the PostgreSQL backend *)
PgRecordedOnly ==
    /\ pgLast'.err = ""
    /\ PgBalances' = PgBalances
    /\ seqgen' = seqgen + 1
    /\ PgTransactions(Len(pgLog))' = PgTransactions(Len(pgLog)) \cup {pgLast'.tx}
    /\ pgLast'.tx.Sequence = seqgen'
    /\ pgLast'.tx \notin PgTransactions(Len(pgLog))

(* C17 as stated: every Transfer from an existing account to itself is
   accepted, changes no balance, and allocates a new sequence number and a
   new transaction record, on both backends. *)
C17_SelfTransferAlways ==
    [][\A r \in BothTransferInputs :
          (r[1] = r[2] /\ BothTransfer(r[1], r[2], r[3], r[4], r[5]))
             => /\ r[1] \in DOMAIN accts => MemRecordedOnly
                /\ r[1] \in PgAccounts(Len(pgLog)) => PgRecordedOnly]_vars

(* C17, amended: a Transfer from an existing account to itself, with a
   positive amount that does not exceed the account's balance in a non-empty
   currency, and with no idempotency key or one not yet recorded, is
   accepted, changes no balance, and allocates a new sequence number and a
   new transaction record, on both backends. *)
C17_SelfTransferWithFunds ==
    [][\A r \in BothTransferInputs :
          (/\ r[1] = r[2]
           /\ IsPositive(r[4]) /\ r[3] # ""
           /\ BothTransfer(r[1], r[2], r[3], r[4], r[5]))
             => /\ (/\ r[1] \in DOMAIN accts
                     /\ ~IdemLookup(r[5])
                     /\ Bal(accts[r[1]], r[3]) >= r[4]) => MemRecordedOnly
                /\ (/\ r[1] \in PgAccounts(Len(pgLog))
                     /\ r[5] \notin {t.IdempotencyKey : t \in PgTransactions(Len(pgLog))} \ {""}
                     /\ PgBalance(Len(pgLog), r[1], r[3]) >= r[4]) => PgRecordedOnly]_vars

(* a transfer from an account to itself was accepted on both backends *)
C17_Witness ==
    /\ last.op = "Transfer" /\ last.err = ""
    /\ last.tx.FromAccountID = last.tx.ToAccountID
    /\ last.tx.Sequence = seq
    /\ pgLast.op = "Transfer" /\ pgLast.err = ""
    /\ pgLast.tx.FromAccountID = pgLast.tx.ToAccountID
    /\ pgLast.tx.Sequence = seqgen

(* items and next are the answer to a listing of at most lim of the
   transactions all after sequence afterSeq: the items are transactions with
   a sequence above afterSeq, ascending, at most lim of them, every matching
   transaction left out comes after the last item of a full page, and next is
   the sequence of the last item, or 0 *)
ListedRight(items, next, all, lim, afterSeq) ==
    /\ Len(items) <= lim
    /\ \A i \in 1 .. Len(items) : items[i] \in all /\ items[i].Sequence > afterSeq
    /\ \A i, j \in 1 .. Len(items) : i < j => items[i].Sequence < items[j].Sequence
    /\ \A t \in all :
          (t.Sequence > afterSeq /\ \A i \in 1 .. Len(items) : items[i] # t)
              => /\ Len(items) = lim
                 /\ \A i \in 1 .. Len(items) : items[i].Sequence < t.Sequence
    /\ next = (IF items = << >> THEN 0 ELSE items[Len(items)].Sequence)

MemTransactions == {txs[i] : i \in 1 .. Len(txs)}

(* C18 as stated: ListTransactions(limit, afterSeq) returns at most limit
   transactions, those with the smallest sequences above afterSeq, ascending,
   and nextSeq is the largest sequence returned or 0, on both backends. *)
C18_ListAsAsked ==
    [][\A l \in ListInputs :
          BothListTransactions(l[1], l[2])
             => /\ ListedRight(last'.value[1], last'.value[2], MemTransactions, l[1], l[2])
                /\ ListedRight(pgLast'.value[1], pgLast'.value[2],
                               PgTransactions(Len(pgLog)), l[1], l[2])]_vars

(* C18, amended: the same for a limit from 1 to the largest limit (1000); a
   limit of 0 or less, or above the largest limit, lists as the default
   limit (100) does. *)
C18_ListWithinLimits ==
    [][\A l \in ListInputs :
          BothListTransactions(l[1], l[2])
             => LET lim == IF l[1] >= 1 /\ l[1] <= LimitMax THEN l[1] ELSE LimitDefault
                IN /\ ListedRight(last'.value[1], last'.value[2], MemTransactions,
                                  lim, l[2])
                   /\ ListedRight(pgLast'.value[1], pgLast'.value[2],
                                  PgTransactions(Len(pgLog)), lim, l[2])]_vars

(* a listing returned a page that the limit cut short, the same on both
   backends *)
C18_Witness ==
    /\ last.op = "ListTransactions"
    /\ pgLast = last
    /\ Len(last.value[1]) >= 1
    /\ Len(last.value[1]) < Len(txs)
    /\ last.value[1][1].Sequence = 1

(* the connections whose commit or rollback connection c is waiting for: the
   holder of the account row it wants to lock, or the uncommitted insert of
   its idempotency key *)
WaitsFor(c) ==
    LET k == conn[c]
    IN IF k.pc \in {"lock1", "lock2"}
       THEN LET acc == sorted(k.from, k.to)[IF k.pc = "lock1" THEN 1 ELSE 2]
            IN IF acc \in PgAccounts(k.snap)
               THEN {d \in Conns \ {c} : acc \in LockedBy(d)}
               ELSE {}
       ELSE IF k.pc = "insert" /\ k.key # ""
       THEN {d \in Conns \ {c} : conn[d].pc = "commit" /\ conn[d].key = k.key}
       ELSE {}

(* C32: concurrent transfers on the SQL backend never deadlock, transfers
   between the same two accounts in opposite directions included: in every
   set of transfers under way there is one that waits for none of the
   others. *)
C32_NoDeadlock ==
    \A S \in SUBSET Conns : S # {} => \E c \in S : WaitsFor(c) \cap S = {}

(* a transfer from one account to another waits for the transfer in the
   opposite direction *)
C32_Witness ==
    \E c, d \in Conns :
        /\ conn[c].pc # "idle" /\ conn[d].pc # "idle"
        /\ conn[c].from # conn[c].to
        /\ conn[c].from = conn[d].to /\ conn[c].to = conn[d].from
        /\ d \in WaitsFor(c)

(* C33: a Transfer that succeeds never wraps a balance: the destination
   balance after it is its value before plus the amount, as an exact integer
   (its value before when source and destination are the same account). *)
C33_CreditIsExact ==
    [][Len(txs') > Len(txs)
         => LET tx == txs'[Len(txs')]
                before == Bal(accts[tx.ToAccountID], tx.Currency)
                after == Bal(accts'[tx.ToAccountID], tx.Currency)
            IN /\ after >= 0
               /\ after = IF tx.FromAccountID = tx.ToAccountID THEN before
                          ELSE before + tx.Amount]_vars

(* Properties of paging, checked under SpecPaging *)

(* C31: a client that pages with the nextSeq of its last call is given every
   committed transaction exactly once: every committed transaction its cursor
   has passed is among the transactions it was given, and none was given
   twice. *)
C31_PagingSeesEveryTransaction ==
    /\ \A t \in PgTransactions(Len(pgLog)) :
          t.Sequence <= cursor => \E i \in DOMAIN received : received[i] = t.Sequence
    /\ \A i, j \in DOMAIN received : received[i] = received[j] => i = j

(* Properties of the migration manager, checked under SpecMigrate *)

(* the names of the files on disk that are not recorded, in ascending order *)
Pending ==
    SelectSeq([i \in DOMAIN collectSQL(disk) |-> collectSQL(disk)[i].base],
              LAMBDA name : name \notin listExecuted(schema_migrations))

(* the statements of the migration called name *)
Effects(name) == {<<name, k>> : k \in 1 .. StatementsPerFile}

(* C27: Up applies exactly the migrations that are not yet recorded, in
   ascending order of their file names (the first of them up to the one that
   fails, if one fails), and an Up right after an Up that succeeded executes
   no migration. *)
C27_UpAppliesPending ==
    [][Up => /\ migRes'.ran = SubSeq(Pending, 1, Len(migRes'.ran))
             /\ migRes'.err = "" => migRes'.ran = Pending
             /\ dbSchema' = dbSchema \cup UNION {Effects(migRes'.ran[i]) : i \in DOMAIN migRes'.ran}
             /\ schema_migrations' = schema_migrations \o migRes'.ran
             /\ (migRes.op = "Up" /\ migRes.err = "")
                  => migRes'.ran = << >> /\ UNCHANGED <<dbSchema, schema_migrations>>]_vars

(* Up has applied a migration that was added after a later one had been
   applied, and has been run again *)
C27_Witness ==
    /\ migRes = MigrationResult("Up", "", "", << >>)
    /\ schema_migrations = <<"0002_rbac", "0001_init">>

(* C28: when a statement of a migration fails, none of the migration's
   statements takes effect, the migration is not recorded, no later migration
   is applied, and Up returns an error that names the file. *)
C28_FailedMigrationLeavesNoTrace ==
    [][(Up /\ migRes'.err # "")
         => LET bad == CHOOSE f \in disk : f.base = Pending[Len(migRes'.ran) + 1]
            IN /\ bad.failAt > 0
               /\ migRes'.err = "apply migration" /\ migRes'.file = bad.base
               /\ dbSchema' \cap Effects(bad.base) = {}
               /\ bad.base \notin listExecuted(schema_migrations')
               /\ \A f \in disk :
                    f.rank > bad.rank
                      => /\ f.base \in listExecuted(schema_migrations')
                              <=> f.base \in listExecuted(schema_migrations)
                         /\ dbSchema' \cap Effects(f.base) = dbSchema \cap Effects(f.base)]_vars

(* Up has failed at the bad migration after applying the one before it, with
   a later migration on disk *)
C28_Witness ==
    /\ migRes = MigrationResult("Up", "apply migration", "0003_bad", <<"0001_init">>)
    /\ \E f \in disk : f.base = "0004_keys"

(* C29: Down rolls back exactly the migration applied most recently and
   removes exactly its bookkeeping row; when that migration has no sibling
   .down.sql file, Down fails and changes nothing. *)
C29_DownRollsBackLast ==
    [][(Down /\ schema_migrations # << >>)
         => LET name == schema_migrations[Len(schema_migrations)]
            IN IF \E f \in disk : f.base = name /\ f.down
               THEN /\ migRes'.err = ""
                    /\ dbSchema' = dbSchema \ Effects(name)
                    /\ schema_migrations' =
                         SubSeq(schema_migrations, 1, Len(schema_migrations) - 1)
               ELSE /\ migRes'.err # ""
                    /\ UNCHANGED <<dbSchema, schema_migrations>>]_vars

(* Properties of the shutdown of the API process, checked under SpecMain *)

(* C30: the database pool is closed last: when it is closed, the HTTP and
   the gRPC server have stopped and no request is still being served. *)
C30_PoolClosedLast ==
    [][CloseStore => /\ listening = {}
                     /\ closed = <<"srv", "grpcSrv", "lis", "stopDemo", "remoteClient">>
                     /\ srvActive = 0 /\ grpcActive = 0]_vars

(* C30, amended: when the pool is closed, both servers have stopped accepting,
   everything else has been stopped or closed, no gRPC call is being served,
   and no HTTP request is being served unless the shutdown deadline passed
   while srv.Shutdown was waiting. *)
C30_PoolClosedLastOrDeadline ==
    [][CloseStore => /\ listening = {}
                     /\ closed = <<"srv", "grpcSrv", "lis", "stopDemo", "remoteClient">>
                     /\ grpcActive = 0
                     /\ srvActive = 0 \/ ctxDone]_vars

(* requests have been served and the pool has been closed after srv.Shutdown
   returned within its deadline *)
C30_Witness ==
    /\ mainPc = "stopped" /\ ~ctxDone /\ accepted > 0
    /\ closed[Len(closed)] = "db"

(* C34: the statements of a migration file are executed at most once, also
   after the insert of the bookkeeping row has failed: no call of Up runs a
   migration whose statements are in effect. *)
C34_ExecutedAtMostOnce ==
    [][\A i \in DOMAIN migRes'.ran :
          migRes'.op = "Up" => Effects(migRes'.ran[i]) \cap dbSchema = {}]_vars

(* C35: no token is issued for a disabled user: a password grant for the user
   creates no refresh token, and a refresh token of the user that is presented
   is turned down at once. *)
C35_NoTokenForDisabledUser ==
    [][/\ \A p \in Procs, u \in AuthUsers :
             (userStatus[u] = "disabled" /\ IssueTokenPair(p, u, TRUE))
                => refreshTokens' = refreshTokens /\ rtRes'.err # ""
       /\ \A p \in Procs, raw \in PresentedTokens :
             (/\ Len(raw) = 2 /\ raw[1] \in DOMAIN refreshTokens
              /\ userStatus[refreshTokens[raw[1]].UserID] = "disabled"
              /\ RefreshFind(p, raw))
                => rt'[p].pc = "idle" /\ rtRes'.err # ""]_vars

(* Properties of the RBAC stores, checked under SpecRBAC *)

(* C22: every stored user-role assignment links a user and a role of the same
   organization (an assignment across organizations is refused and nothing
   is stored). *)
C22_Tenancy ==
    \A a \in user_roles : UserOrg[a.user_id] = RoleOrg[a.role_id]

(* C23: setting the permissions of a role that does not exist, or with a key
   that is not in the catalog, fails with NotFound and leaves the
   role-to-permission mapping as it was. *)
C23_UnknownRoleOrKey ==
    [][\A roleID \in RoleInputs, keys \in KeyInputs :
         (/\ roleID \notin DOMAIN RoleOrg \/ ~(keys \subseteq PermissionCatalog)
          /\ SetRolePermissions(roleID, keys) \/ SetForRole(roleID, keys))
            => /\ rbacRes'.err = ErrNotFound
               /\ role_permissions' = role_permissions]_vars

(* Properties of the rate limiter, checked under SpecRateLimit *)

(* C19: of the requests of one client IP that are subject to the limiter, at
   most burst + rate * t are passed on in any interval of t seconds (here
   burst + the refill periods of the interval); with burst 1 the second of
   two requests at the same instant is denied. *)
C19_AtMostBurstPlusRefill ==
    \A i, j \in 1 .. Len(admits) :
        i <= j => (j - i + 1) <= rlBurst + (admits[j] - admits[i])

(* C20: a request the rate limiter denies is answered 429 with the header
   Retry-After: 1 and a JSON body that carries the error and the request id
   of the request. *)
C20_DenyEnvelope ==
    LET envelope(msg, id) ==
            "{\"error\":\"" \o msg \o "\",\"request_id\":\"" \o id \o "\"}"
    IN rlResp.status = 429
           => /\ rlResp.retry_after = "1"
              /\ rlResp.content_type = "application/json"
              /\ rlResp.body = envelope("rate limit exceeded", rlResp.request_id)

(* Properties of access-token validation, checked under SpecVerify *)

(* C15: a token that validation accepts is signed with RS256, has a subject,
   carries exp and iat, has the configured issuer as iss, is not expired, is
   not issued more than the skew in the future, and does not expire before
   it was issued; any other token is rejected. *)
C15_AcceptedTokenIsSound ==
    verified.err = ""
        => /\ verified.token.alg = "RS256"
           /\ verified.token.sub # ""
           /\ verified.token.exp # 0
           /\ verified.token.iat # 0
           /\ verified.token.iss = Issuer
           /\ verified.at <= verified.token.exp
           /\ verified.token.iat <= verified.at + Skew
           /\ verified.token.exp >= verified.token.iat

(* Properties of the signing-key manager, checked under SpecKeys *)

(* C14: at every instant at most one row of auth_keys has status active, also
   while several processes run EnsureActive at the same time. *)
C14_OneActiveKey == Cardinality(ActiveKeys(authKeys)) <= 1

(* Properties of the authorization-code exchange, checked under SpecOAuth *)

(* C13: an authorization code is exchanged at most once: a successful exchange
   leaves the code consumed, and every exchange of a consumed code that
   follows is answered 400, hands out no token and changes no row. *)
C13_CodeExchangedOnce ==
    [][/\ \A p \in Procs :
             ExchangeConsume(p)
                 => /\ exRes'.status = 200
                    /\ authCodes'[ex[p].req.Code].consumed_at # << >>
       /\ \A p \in Procs : \A req \in AuthCodeExchangeRequests :
             (/\ req.Code \in DOMAIN authCodes
              /\ authCodes[req.Code].consumed_at # << >>
              /\ ExchangeLoad(p, req))
                 => /\ exRes'.status = 400
                    /\ exRes'.token = ""
                    /\ ex'[p].pc = "idle"
                    /\ authCodes' = authCodes]_vars

(* a code that was exchanged with success was presented again before its
   expiry, by the right client with the right secret and verifier, and the
   exchange was answered 400 *)
C13_Witness ==
    /\ exRes.status = 400
    /\ exRes.req.Code \in DOMAIN authCodes
    /\ LET row == authCodes[exRes.req.Code]
       IN /\ row.consumed_at # << >>
          /\ row.client_id = exRes.req.ClientID
          /\ exRes.req.ClientSecret = oauthClients[row.client_id].secret
          /\ verifyChallenge(row.code_challenge_method, row.code_challenge,
                             exRes.req.CodeVerifier)
          /\ now <= row.expires_at

(* Properties of refresh-token rotation, checked under SpecAuth *)

(* C10: when a refresh token is used with success, its stored record is marked
   revoked before the new pair is issued (the minting step finds it revoked),
   and so a call that presents the same token after that use is rejected with
   ErrInvalidToken, issues nothing and has no call left under way. *)
C10_RevokedBeforeIssue ==
    [][/\ \A p \in Procs :
             RefreshMint(p) => (rt[p].id \in DOMAIN refreshTokens
                                /\ refreshTokens[rt[p].id].Revoked)
       /\ \A p \in Procs : \A raw \in PresentedTokens :
             (Len(raw) = 2 /\ raw[1] \in rotated /\ RefreshFind(p, raw))
                 => /\ rt'[p].pc = "idle"
                    /\ rtRes'.err = ErrInvalidToken
                    /\ rtRes'.RefreshToken = << >>
                    /\ refreshTokens' = refreshTokens]_vars

(* a token that was used with success was presented again, with its right
   secret, and was rejected *)
C10_Witness ==
    /\ rtRes.err = ErrInvalidToken
    /\ rtRes.presented \in rotated
    /\ \A p \in Procs : rt[p].pc = "idle"
    /\ refreshTokens[rtRes.presented].TokenHash = Hash(rtRes.presented)
    /\ now <= refreshTokens[rtRes.presented].ExpiresAt

(* C11: a refresh token is exchanged for a new pair at most once, also when
   two RefreshTokenPair calls present it at the same time: a call that mints
   a pair for a token does so for a token no earlier call has minted for. *)
C11_AtMostOneRotation ==
    [][\A p \in Procs : RefreshMint(p) => rt[p].id \notin rotated]_vars

(* C12: a RefreshTokenPair call that presents a refresh token whose record is
   already revoked fails with ErrInvalidToken, and when it has returned every
   refresh token of the user the record belongs to is revoked. *)
C12_ReuseRevokesAllOfUser ==
    [][\A p \in Procs : \A raw \in PresentedTokens :
          LET parts == splitRefreshToken(raw)
          IN (/\ parts.ok
              /\ parts.id \in DOMAIN refreshTokens
              /\ refreshTokens[parts.id].Revoked
              /\ RefreshFind(p, raw))
                 => /\ rtRes'.err = ErrInvalidToken
                    /\ \A id \in DOMAIN refreshTokens' :
                          refreshTokens'[id].UserID = refreshTokens[parts.id].UserID
                              => refreshTokens'[id].Revoked]_vars

----------------------------------------------------------------------------
(* Properties of the HTTP API, checked under SpecHTTP *)

(* the request carries a bearer token that validates: the Bearer scheme in
   either case, a token signed by the service, with a subject, not expired *)
CarriesValidToken(r) ==
    /\ r.authorization.scheme \in {"Bearer", "bearer"}
    /\ r.authorization.token.signed
    /\ ~r.authorization.token.expired
    /\ r.authorization.token.sub # ""

(* no ledger and no RBAC state changes *)
StoresUnchanged == UNCHANGED <<accts, seq, txs, idem, rolePerms>>

(* C8 as stated: a request to a path off the bypass list reaches a ledger or
   RBAC handler only if it carried a bearer token that passed validation;
   every other such request is answered with 401 and changes no ledger or RBAC
   state. *)
C8_TokenOr401 ==
    [][\A a \in Arrivals :
         LET r == a[1]
             c == a[2]
         IN
         (~isPublicPath(r.path) /\ ~(CarriesValidToken(r) /\ c.secretOK)
            /\ ServeHTTP(r, c.secretOK, c.allow))
            => /\ resp'.by \notin LedgerOrRBACHandlers
               /\ resp'.status = 401
               /\ StoresUnchanged]_vars

(* C8: a request to a path off the bypass list reaches a ledger or RBAC
   handler only if it carried a bearer token that passed validation; every
   other such request changes no ledger or RBAC state and is answered by the
   chain in front of the mux: with 204 when its method is OPTIONS, with 500
   when it carries a bearer token and the validation fails for a reason other
   than the token, and with 401 otherwise. *)
C8_TokenOrRejected ==
    [][\A a \in Arrivals :
         LET r == a[1]
             c == a[2]
         IN
         (~isPublicPath(r.path) /\ ~(CarriesValidToken(r) /\ c.secretOK)
            /\ ServeHTTP(r, c.secretOK, c.allow))
            => /\ resp'.by \notin LedgerOrRBACHandlers
               /\ resp'.status =
                    IF r.method = "OPTIONS" THEN 204
                    ELSE IF /\ r.authorization.scheme \in {"Bearer", "bearer"}
                            /\ r.authorization.token # NoToken
                            /\ ~c.secretOK
                    THEN 500
                    ELSE 401
               /\ StoresUnchanged]_vars

(* withAuth has answered a request with 401 while the ledger holds accounts
   and a transfer *)
C8_Witness ==
    /\ resp = Response(401, "invalid_token", "withAuth")
    /\ DOMAIN accts # {}
    /\ Len(txs) > 0

(* C9: POST /v1/accounts with a valid body by an authenticated user is
   answered with 403 insufficient_scope when the user does not hold the
   permission ledger.account.create, and with 201 when the user holds it. *)
C9_PermissionDecides ==
    [][\A r \in Requests :
         (/\ r.method = "POST"
          /\ r.path = AccountsPath
          /\ CarriesValidToken(r)
          /\ r.body = ValidAccountBody
          /\ ServeHTTP(r, TRUE, TRUE))
            => IF PermLedgerCreateAccount \in UserPermissions(r.authorization.token.sub)
               THEN resp'.status = 201
               ELSE resp'.status = 403 /\ resp'.www = "insufficient_scope"]_vars

(* the user of the token holds a role called name *)
HoldsRole(userID, name) == \E r \in assignments[userID] : RoleNames[r] = name

(* a role of the user grants the permission *)
HoldsPermission(userID, perm) == \E r \in assignments[userID] : perm \in rolePerms[r]

(* C36: after a role assignment has been removed, a request of the user that
   needs a role or a permission the user does not hold any longer is answered
   with 403, also with an access token issued before the removal. *)
C36_RemovedRoleIsRejected ==
    [][\A r \in GuardedRequests(issued) :
         LET user == r.authorization.token.sub
         IN (/\ ServeHTTP(r, TRUE, TRUE)
             /\ IF r.path = AccountsPath THEN ~HoldsRole(user, "admin")
                ELSE ~HoldsPermission(user, PermissionManagePermissions))
               => resp'.status = 403]_vars

(* C37: for each transaction of the ledger exactly one event
   ledger.transfer.execute is emitted, and a transfer request is audited as
   ledger.transfer.idempotent_replay exactly when Transfer returned a
   transaction that existed already. *)
C37_AuditTellsReplays ==
    /\ \A i \in 1 .. Len(txs) :
          Cardinality({j \in DOMAIN auditLog :
                         /\ auditLog[j].event = "ledger.transfer.execute"
                         /\ auditLog[j].resource_id = txs[i].ID}) = 1
    /\ \A j \in DOMAIN auditLog :
          auditLog[j].event = "ledger.transfer.idempotent_replay" <=> auditLog[j].existing

(* C39: however Publish interleaves with subscribers that connect and
   disconnect, Publish never sends an event on a channel that has been closed:
   no send has hit a closed channel, and every channel a running Publish has
   still to send on is open. *)
C39_NoSendOnClosed ==
    /\ ~panicked
    /\ \A p \in Procs : \A id \in pub[p].todo : chans[id].made /\ ~chans[id].closed

(* a Publish is in its range while the context of a subscriber it has still
   to send to is done and the closing goroutine waits for the mutex *)
C39_Witness ==
    \E p \in Procs : \E id \in pub[p].todo :
        /\ pub[p].pc = "range"
        /\ subCtx[id] = "done"
        /\ \E other \in SubIDs : chans[other].closed

(* C40: Publish never blocks: a Publish in its range can always take its next
   step, whatever the buffers hold; one turn of the loop touches the channel
   of one subscriber only, where the event is appended if the buffer has room
   and dropped if it is full; and a subscriber with an event in its buffer can
   always take it. *)
C40_PublishNeverBlocks ==
    /\ [](\A p \in Procs :
             pub[p].pc = "range" =>
                 IF pub[p].todo = {} THEN ENABLED PublishReturn(p)
                 ELSE \A id \in pub[p].todo : ENABLED PublishSelect(p, id))
    /\ [](\A id \in SubIDs : chans[id].buf # << >> => ENABLED Receive(id))
    /\ [][\A p \in Procs :
             pub[p].pc = "range" /\ pub'[p] # pub[p] /\ pub'[p].pc = "range" =>
                 \E id \in pub[p].todo :
                     /\ pub'[p].todo = pub[p].todo \ {id}
                     /\ \A other \in SubIDs \ {id} : chans'[other] = chans[other]
                     /\ chans'[id].buf = IF Len(chans[id].buf) < ChanCap
                                         THEN Append(chans[id].buf, pub[p].evt)
                                         ELSE chans[id].buf]_vars

(* the second event has been published to two subscribers: the one that did
   not read still holds the first event only, the other one, which read, got
   the second, and the Publish is about to return *)
C40_Witness ==
    \E p \in Procs : \E slow, quick \in subs :
        /\ pub[p].pc = "range" /\ pub[p].evt = 2 /\ pub[p].todo = {}
        /\ \A q \in Procs \ {p} : pub[q].pc = "idle"
        /\ slow # quick
        /\ chans[slow].buf = <<1>>
        /\ chans[quick].buf = <<2>>

(* s is the beginning of t *)
IsPrefix(s, t) == Len(s) <= Len(t) /\ s = SubSeq(t, 1, Len(s))

(* the layers a served request has entered come in the given order, from the
   outermost on, and a request answered in the mux has entered them all *)
PassedInOrder(order) ==
    passed # << >> =>
        /\ IsPrefix(passed, order)
        /\ resp.by \notin {"withAuth", "CORS", "RateLimit"} => passed = order

(* C38 as stated: every request passes through the middleware in the order
   request ID, structured logging, auth, panic recovery, security headers,
   CORS, rate limit, body-size cap, metrics instrumentation, the last one
   being next to the handler. *)
C38_MetricsInnermost ==
    PassedInOrder(<<"RequestID", "LoggingJSON", "withAuth", "Recover", "SecurityHeaders",
                    "CORS", "RateLimit", "MaxBodyBytes", "Instrument", "mux">>)

(* C38: every request passes through the middleware in the order metrics
   instrumentation (outermost), request ID, structured logging, auth, panic
   recovery, security headers, CORS, rate limit, body-size cap (innermost,
   next to the handler): a request enters them in that order down to the one
   that answers it. *)
C38_MetricsOutermost ==
    PassedInOrder(<<"Instrument", "RequestID", "LoggingJSON", "withAuth", "Recover",
                    "SecurityHeaders", "CORS", "RateLimit", "MaxBodyBytes", "mux">>)

(* a request that created an account has gone through every layer *)
C38_Witness ==
    /\ passed # << >>
    /\ resp.by = "createAccount"
    /\ resp.status = 201
    /\ passed[1] = "Instrument"
    /\ passed[Len(passed)] = "mux"

(* C24 as stated: a panic raised anywhere while a request is served is
   recovered and the client receives a 500 response (the server keeps
   serving: the step changes nothing but the response). *)
C24_PanicAnywhere ==
    [][\A r \in PanicRequests, at \in LayerNames, written \in {0, 200} :
         ServeHTTPPanic(r, at, written) => resp'.status = 500]_vars

(* C24: a panic raised inside the recovery middleware (in the security
   headers, CORS, rate limit or body limit middleware or in a handler of the
   mux) before the response header is written is recovered and the client
   receives a 500 response; the server keeps serving. *)
C24_PanicInsideRecover ==
    [][\A r \in PanicRequests, at \in LayerNames :
         (Depth(at) > Depth("Recover") /\ ServeHTTPPanic(r, at, 0))
            => resp' = Response(500, "", "Recover") /\ StoresUnchanged]_vars

(* Recover has answered a panic with 500 while the ledger holds an account *)
C24_Witness ==
    /\ resp = Response(500, "", "Recover")
    /\ DOMAIN accts # {}

(* C25: when the write of an audit entry fails, the primary operation still
   completes and the response is the one the handler chain gives, which is the
   one it gives when the audit write succeeds. *)
C25_AuditFailureUnnoticed ==
    [][\A r \in AuditRequests, header \in RequestIDHeaders, fails \in BOOLEAN :
         ServeHTTPAudit(r, header, fails)
            => /\ Handler(r, TRUE, TRUE)
               /\ auditFailures' # << >>
                    => /\ resp'.status \in {201, 204}
                       /\ <<accts', txs', rolePerms'>> # <<accts, txs, rolePerms>>
                            \/ resp'.by = "transfer" \/ resp'.by = "handleRoleResource"]_vars

(* an account was created and answered with 201 although the audit entry
   could not be written *)
C25_Witness ==
    /\ auditFailures = <<"ledger.account.create">>
    /\ resp = Response(201, "", "createAccount")
    /\ DOMAIN accts # {}

(* C26: every audit entry written while a request is served carries the
   request's id, the value that is set on the response header X-Request-Id. *)
C26_AuditCarriesRequestID ==
    \A i \in DOMAIN audited : audited[i].request_id = responseRid

(* C21: every response with status 401 or 403, of a middleware or of an
   endpoint, carries a WWW-Authenticate header. *)
C21_ChallengeOnDenial ==
    resp.status \in {401, 403} => resp.www # ""

(* The calls on the in-memory backend; its mutex makes each of them one step *)
NextMem ==
    \/ \E s \in SeedInputs : CallCreateAccount(s[1], s[2])
    \/ \E r \in TransferInputs :
          CallTransfer(r[1], r[2], r[3], r[4], r[5])

SpecMem == Init /\ [][NextMem]_vars

(* The calls on the PostgreSQL backend, Transfer one statement at a time *)
NextPg ==
    \/ \E s \in PgSeedInputs : PgCreateAccount(s[1], s[2])
    \/ \E c \in Conns, r \in PgTransferInputs(Cardinality(PgAccounts(Len(pgLog)))) :
          PgTransferBegin(c, r[1], r[2], r[3], r[4], r[5])
    \/ \E c \in Conns : PgLockAccount(c)
    \/ \E c \in Conns : PgEnsureBalanceRows(c)
    \/ \E c \in Conns : PgCheckFunds(c)
    \/ \E c \in Conns : PgDebit(c)
    \/ \E c \in Conns : PgCredit(c)
    \/ \E c \in Conns : PgInsertTransaction(c)
    \/ \E c \in Conns : PgCommit(c)
    \/ \E c \in Conns : PgCancel(c)

SpecPg == Init /\ [][NextPg]_vars

(* The calls on the auth service, RefreshTokenPair one store access at a time *)
NextAuth ==
    \/ \E p \in Procs, u \in AuthUsers, ok \in BOOLEAN : IssueTokenPair(p, u, ok)
    \/ \E p \in Procs, raw \in PresentedTokens : RefreshFind(p, raw)
    \/ \E p \in Procs : RefreshReject(p)
    \/ \E p \in Procs : RefreshRevoke(p)
    \/ \E p \in Procs : RefreshMint(p)
    \/ Tick

SpecAuth == Init /\ [][NextAuth]_vars

(* The requests to the API, one at a time *)
NextHTTP == \E a \in Arrivals : ServeHTTP(a[1], a[2].secretOK, a[2].allow)

SpecHTTP == Init /\ [][NextHTTP]_vars

(* The requests to the API, with panics in the course of some *)
NextPanic ==
    \/ \E a \in Arrivals : ServeHTTP(a[1], a[2].secretOK, a[2].allow)
    \/ \E r \in PanicRequests, at \in LayerNames, written \in {0, 200} :
          ServeHTTPPanic(r, at, written)

SpecPanic == Init /\ [][NextPanic]_vars

(* The requests for audited operations, with and without a failing audit
   log *)
NextAudit ==
    \E r \in AuditRequests, header \in RequestIDHeaders, fails \in BOOLEAN :
        ServeHTTPAudit(r, header, fails)

SpecAudit == Init /\ [][NextAudit]_vars

(* Requests to a route behind withAuth and RequireRole, and to the token
   endpoint *)
NextToken ==
    \/ \E r \in AccountArrivals : ServeHTTP(r, TRUE, TRUE)
    \/ \E p \in Procs, req \in TokenRequests : passwordGrant(p, req)

SpecToken == Init /\ [][NextToken]_vars

(* The OAuth endpoints, exchanges of two clients interleaved *)
NextOAuth ==
    \/ \E req \in AuthCodeRequests : handleOAuthAuthorize(req)
    \/ \E p \in Procs, req \in AuthCodeExchangeRequests : ExchangeLoad(p, req)
    \/ \E p \in Procs : ExchangeConsume(p)
    \/ OAuthTick

SpecOAuth == Init /\ [][NextOAuth]_vars

(* Key rotation by two processes *)
NextKeys ==
    \/ \E p \in Procs : EnsureActiveSelect(p)
    \/ \E p \in Procs : EnsureActiveRetire(p)
    \/ \E p \in Procs : EnsureActiveCommit(p)
    \/ KeyTick

SpecKeys == Init /\ [][NextKeys]_vars

(* Bearer tokens presented to the service *)
NextVerify ==
    \E tok \in AccessTokens, tokenSecret \in BOOLEAN, t \in 1 .. 2 :
        AuthenticateToken(tok, tokenSecret, t)

SpecVerify == Init /\ [][NextVerify]_vars

(* The calls of one caller, each made on both backends *)
NextBoth ==
    \/ \E s \in BothSeedInputs : BothCreateAccount(s[1], s[2])
    \/ \E r \in BothTransferInputs : BothTransfer(r[1], r[2], r[3], r[4], r[5])
    \/ \E id \in {2, 3} : BothGetAccount(id)
    \/ \E b \in BalanceInputs : BothGetBalance(b[1], b[2])
    \/ \E l \in ListInputs : BothListTransactions(l[1], l[2])

SpecBoth == Init /\ [][NextBoth]_vars

(* Requests of two clients at the rate limiter, and the passing of time *)
NextRateLimit ==
    \/ \E burst \in 1 .. MaxBurst : NewRateLimit(burst)
    \/ \E method \in RateLimitMethods, ip \in ClientIPs, id \in RequestIDs :
          RateLimit(method, ip, id)
    \/ RateLimitTick

SpecRateLimit == Init /\ [][NextRateLimit]_vars

(* The calls on the two RBAC stores *)
NextRBAC ==
    \/ \E userID \in UserInputs, roleID \in RoleInputs : AssignRoleToUser(userID, roleID)
    \/ \E userID \in UserInputs, roleID \in RoleInputs, org \in Organizations :
          Assign(Assignment(userID, roleID, org))
    \/ \E roleID \in RoleInputs, keys \in KeyInputs : SetRolePermissions(roleID, keys)
    \/ \E roleID \in RoleInputs, keys \in KeyInputs : SetForRole(roleID, keys)

SpecRBAC == Init /\ [][NextRBAC]_vars

(* Migration files are written, and Up and Down are run *)
NextMigrate ==
    \/ \E file \in MigrationFiles : AddFile(file)
    \/ Up
    \/ Down

SpecMigrate == Init /\ [][NextMigrate]_vars

(* The process serves requests and is told to stop *)
NextMain ==
    \/ \E server \in {"http", "grpc"} : ServeRequest(server) \/ FinishRequest(server)
    \/ Signal
    \/ ContextTimeout
    \/ Shutdown
    \/ GracefulStop
    \/ CloseStore

SpecMain == Init /\ [][NextMain]_vars

(* Transfers on the PostgreSQL backend and a client that pages through the
   transactions *)
NextPaging ==
    \/ NextPg
    \/ \E limit \in PageLimits : NextPage(limit)

SpecPaging == Init /\ [][NextPaging]_vars

(* The migration manager with failures of the bookkeeping insert *)
NextMigrateFaults ==
    \/ NextMigrate
    \/ \E file \in MigrationFiles : UpInsertFails(file)

SpecMigrateFaults == Init /\ [][NextMigrateFaults]_vars

(* The calls on the auth service while users are disabled and enabled *)
NextUsers ==
    \/ NextAuth
    \/ \E u \in AuthUsers, status \in UserStatuses : UpdateUser(u, status)

SpecUsers == Init /\ [][NextUsers]_vars

(* Users are issued tokens, lose roles and send requests *)
NextRevoke ==
    \/ \E u \in DOMAIN Assignments : IssueAccessToken(u)
    \/ \E u \in DOMAIN Assignments, role \in RoleIDs : RemoveRoleAssignment(u, role)
    \/ \E r \in GuardedRequests(issued) : ServeHTTP(r, TRUE, TRUE)

SpecRevoke == Init /\ [][NextRevoke]_vars

(* Transfer requests served two at a time *)
NextTransfers ==
    \/ \E amount \in {1, 2} : TransferSeed("QZN", amount)
    \/ \E p \in Procs, body \in TransferBodies : transferStart(p, body)
    \/ \E p \in Procs : transferFinish(p)

SpecTransfers == Init /\ [][NextTransfers]_vars

(* The requests to the API, one at a time, with the layers they enter *)
NextLayers == \E a \in Arrivals : ServeHTTPLayers(a[1], a[2].secretOK, a[2].allow)

SpecLayers == Init /\ [][NextLayers]_vars

(* Publish calls of two requests, with subscribers that come, read and go *)
NextStream ==
    \/ SubscribeLock
    \/ SubscribeRegister
    \/ \E id \in SubIDs : CtxDone(id)
    \/ \E id \in SubIDs : CloseLock(id)
    \/ \E id \in SubIDs : CloseChan(id)
    \/ \E id \in SubIDs : Receive(id)
    \/ \E p \in Procs : PublishRLock(p)
    \/ \E p \in Procs, id \in SubIDs : PublishSelect(p, id)
    \/ \E p \in Procs : PublishReturn(p)

SpecStream == Init /\ [][NextStream]_vars

====
